---------------------------- MODULE Spec2Model ----------------------------
(***************************************************************************)
(* Air-quality server: the predictive forecast core of the routes module   *)
(* (calculateWeatherImpact, analyzeAQITrend, generatePredictiveForecast,   *)
(* getAQIStatus).                                                          *)
(*                                                                         *)
(* Numbers.  JavaScript numbers are IEEE-754 doubles.  Two representations *)
(* are used:                                                               *)
(*   - Rat: an exact rational [n, d] in lowest terms (d > 0).  AQI values, *)
(*     averages, slopes, variances and products are computed exactly.      *)
(*   - Dbl: a double near a multiple of 1/20, [h, l, d], standing for      *)
(*     (h/20 + l * 2^-54 / 20) / d.  The weather coefficients and their    *)
(*     sum are kept in this form, so that the rounding of each double      *)
(*     addition is the one IEEE-754 performs (round to nearest, ties to    *)
(*     even) and a comparison with the literal 1.0 means what it means in  *)
(*     the program.                                                        *)
(***************************************************************************)
EXTENDS Integers, Sequences, FiniteSets

VARIABLES
    pc,               \* position of the operation under analysis
    currentAQI,       \* generatePredictiveForecast: primary history (sequence of aqi)
    weatherForecast,  \* generatePredictiveForecast: sequence of weather points
    regionalData,     \* generatePredictiveForecast: <<>> (undefined) or <<history>>
    primaryTrend,     \* <<>> until computed, then <<TrendSummary>>
    regionalTrend,    \* <<>> (null) or <<TrendSummary>>
    index,            \* index of the map callback about to run
    forecast,         \* forecast points emitted so far / the returned array
    historical,       \* analyzeAQITrend: its argument
    trendSummary,     \* analyzeAQITrend: <<>> or <<result>>
    weather,          \* calculateWeatherImpact: its argument
    weatherImpact,    \* calculateWeatherImpact: <<>> or <<result>>
    aqi,              \* getAQIStatus: its argument
    status,           \* getAQIStatus: "" or the result
    users,                \* MemStorage.users: records in insertion order
    airQualityData,       \* MemStorage.airQualityData
    newsArticles,         \* MemStorage.newsArticles
    airQualityStations,   \* MemStorage.airQualityStations
    currentUserId,        \* MemStorage id counters
    currentAirQualityId,
    currentNewsId,
    currentStationId,
    creations,            \* what the create calls returned so far, in call order
    nearbyStations,       \* <<>> or <<the last getNearbyStations call and its result>>
    request,              \* req.query: [lat, lon, apiUrl] as received
    distances,            \* calculateDistance(latitude, longitude, sensor) per sensor
    selectedSensor,       \* routes: <<>> or <<the sensor selected>>
    nearestSensor,        \* standalone server: "" or the key findNearestSensor returned
    upstream,             \* what each upstream answers with when it answers 2xx
    fetches,              \* the outbound fetches of the request: role -> [url, state]
    primaryAQIHistory,    \* forecast handler: readings made of the primary feeds
    secondaryAQIHistory,  \* forecast handler: readings made of the secondary feeds
    response,             \* the responses the server has sent, in order
    received              \* the req.query of the requests received, in order

vars == <<pc, currentAQI, weatherForecast, regionalData, primaryTrend,
          regionalTrend, index, forecast, historical, trendSummary,
          weather, weatherImpact, aqi, status,
          users, airQualityData, newsArticles, airQualityStations,
          currentUserId, currentAirQualityId, currentNewsId, currentStationId,
          creations, nearbyStations,
          request, distances, selectedSensor, nearestSensor,
          upstream, fetches, primaryAQIHistory, secondaryAQIHistory, response,
          received>>

forecastVars == <<currentAQI, weatherForecast, regionalData, primaryTrend,
                  regionalTrend, index, forecast>>
trendVars == <<historical, trendSummary>>
weatherVars == <<weather, weatherImpact>>
classifyVars == <<aqi, status>>
coreVars == <<forecastVars, trendVars, weatherVars, classifyVars>>
userVars == <<users, currentUserId>>
dataVars == <<airQualityData, currentAirQualityId>>
newsVars == <<newsArticles, currentNewsId>>
stationVars == <<airQualityStations, currentStationId>>
storageVars == <<userVars, dataVars, newsVars, stationVars, creations, nearbyStations>>
sensorVars == <<distances, selectedSensor, nearestSensor>>
handlerVars == <<upstream, fetches, primaryAQIHistory, secondaryAQIHistory, response,
                 received>>
serviceVars == <<storageVars, request, sensorVars, handlerVars>>

---------------------------------------------------------------------------
(* Exact rationals *)

Abs(x) == IF x < 0 THEN -x ELSE x

RECURSIVE GCD(_, _)
GCD(a, b) == IF b = 0 THEN a ELSE GCD(b, a % b)

Rat(n, d) ==
    LET g == GCD(Abs(n), Abs(d))
        s == IF d < 0 THEN -1 ELSE 1
    IN  [n |-> (s * n) \div g, d |-> (s * d) \div g]

R(k) == [n |-> k, d |-> 1]

RAdd(x, y) ==
    LET m == (x.d \div GCD(x.d, y.d)) * y.d
    IN  Rat(x.n * (m \div x.d) + y.n * (m \div y.d), m)
RNeg(x) == [n |-> -x.n, d |-> x.d]
RSub(x, y) == RAdd(x, RNeg(y))
RMul(x, y) ==
    LET g1 == GCD(Abs(x.n), y.d)
        g2 == GCD(Abs(y.n), x.d)
    IN  Rat((x.n \div g1) * (y.n \div g2), (x.d \div g2) * (y.d \div g1))
RDiv(x, y) == RMul(x, Rat(y.d, y.n))
RLt(x, y) == x.n * y.d < y.n * x.d
RLe(x, y) == x.n * y.d <= y.n * x.d
RMax(x, y) == IF RLt(x, y) THEN y ELSE x

RECURSIVE RPow(_, _)
RPow(x, k) == IF k = 0 THEN R(1) ELSE RMul(x, RPow(x, k - 1))

RECURSIVE RSum(_)
RSum(s) == IF s = <<>> THEN R(0) ELSE RAdd(s[1], RSum(Tail(s)))

\* Math.round: the nearest integer, a tie going towards +Infinity.
MathRound(x) == (2 * x.n + x.d) \div (2 * x.d)

\* The values of a JavaScript number-or-nothing slot: a number is a Rat (d > 0);
\* NaN, null and undefined are the three values with d = 0.
NaN == [n |-> 0, d |-> 0]
Null == [n |-> -1, d |-> 0]
Undefined == [n |-> -2, d |-> 0]
Infinity == [n |-> 1, d |-> 0]
IsNumber(v) == v.d > 0

\* Texts (query parameters, feed fields) are held by what parseFloat makes of
\* them: a numeric text is its number, the text Infinity is Infinity; the
\* empty text and a non-numeric text are kept apart from an absent one.
EmptyText == [n |-> -3, d |-> 0]
JunkText == [n |-> -4, d |-> 0]
parseFloat(text) == IF IsNumber(text) \/ text = Infinity THEN text ELSE NaN

\* !text : an absent, null or empty text is falsy (the text 0 is not)
FalsyText(text) == text \in {Undefined, Null, EmptyText}
\* !x for a number-or-nothing: 0, NaN, null and undefined are falsy
FalsyNumber(x) == x \in {R(0), NaN, Null, Undefined}
\* x || fallback
OrElse(x, fallback) == IF FalsyNumber(x) THEN fallback ELSE x

\* x < y on numbers, NaN and Infinity
NumLt(x, y) ==
    IF x = NaN \/ y = NaN \/ x = Infinity THEN FALSE
    ELSE IF y = Infinity THEN TRUE
    ELSE RLt(x, y)
\* Math.abs(x - y) and x + y, y finite in the first
NumAbsDiff(x, y) ==
    IF x = NaN THEN NaN ELSE IF x = Infinity THEN Infinity
    ELSE LET v == RSub(x, y) IN [n |-> Abs(v.n), d |-> v.d]
NumAdd(x, y) ==
    IF x = NaN \/ y = NaN THEN NaN
    ELSE IF x = Infinity \/ y = Infinity THEN Infinity
    ELSE RAdd(x, y)

---------------------------------------------------------------------------
(* Doubles near a multiple of 1/20.  With U = 2^-54 / 20, [h, l, d] is     *)
(* (h/20 + l*U) / d.  In units of U the doubles of a binade are the        *)
(* multiples of its grid step, and 2^54 = 384 (mod 640).                   *)

Dbl(h, l) == [h |-> h, l |-> l, d |-> 1]

\* grid step (ulp), in units of U, of the binade holding h/20 + l*U
DblUlp(h, l) ==
    IF h < 20 \/ (h = 20 /\ l < 0) THEN 40
    ELSE IF h < 40 \/ (h = 40 /\ l < 0) THEN 80
    ELSE IF h < 80 \/ (h = 80 /\ l < 0) THEN 160
    ELSE 320

\* x + y on doubles: the exact sum rounded to nearest, ties to even
DblAdd(x, y) ==
    LET h == x.h + y.h
        l == x.l + y.l
        m == DblUlp(h, l)
        r == (384 * h + l) % m
        down == l - r
        up == l - r + m
    IN  IF 2 * r < m THEN Dbl(h, down)
        ELSE IF 2 * r > m THEN Dbl(h, up)
        ELSE IF (384 * h + down) % (2 * m) = 0 THEN Dbl(h, down)
        ELSE Dbl(h, up)

\* x / 4 on doubles: exact (a power of two)
DblQuarter(x) == [h |-> x.h, l |-> x.l, d |-> 4 * x.d]

\* x = 1.0 on doubles
DblIsOne(x) == x.h = 20 * x.d /\ x.l = 0

\* the rational a double stands for, to within one rounding error
DblRat(x) == Rat(x.h, 20 * x.d)

\* x < y, x > y on doubles
DblLt(x, y) ==
    \/ x.h * y.d < y.h * x.d
    \/ x.h * y.d = y.h * x.d /\ x.l * y.d < y.l * x.d
DblGt(x, y) == DblLt(y, x)

---------------------------------------------------------------------------
(* getAQIStatus *)

\* mutant: the bands exclude their upper bounds
getAQIStatusExclusive(v) ==
    IF RLt(v, R(50)) THEN "Good"
    ELSE IF RLt(v, R(100)) THEN "Moderate"
    ELSE IF RLt(v, R(150)) THEN "Unhealthy for Sensitive Groups"
    ELSE IF RLt(v, R(200)) THEN "Unhealthy"
    ELSE IF RLt(v, R(300)) THEN "Very Unhealthy"
    ELSE "Hazardous"

getAQIStatus(v) ==
    IF RLe(v, R(50)) THEN "Good"
    ELSE IF RLe(v, R(100)) THEN "Moderate"
    ELSE IF RLe(v, R(150)) THEN "Unhealthy for Sensitive Groups"
    ELSE IF RLe(v, R(200)) THEN "Unhealthy"
    ELSE IF RLe(v, R(300)) THEN "Very Unhealthy"
    ELSE "Hazardous"

---------------------------------------------------------------------------
(* calculateWeatherImpact *)

\* The literals as doubles: 1.3 = 26/20 + 16U, 0.7 = 14/20 - 16U,
\* 0.9 = 18/20 + 8U, 1.2 = 24/20 - 16U, 1.15 = 23/20 - 32U, 1.0 = 20/20.
\* mutant: pressure.high is 0.8 (= 16/20 + 16U) instead of 0.9
WEATHER_IMPACT_COEFFICIENTS_PressureHigh08 ==
    [windSpeed   |-> [low |-> Dbl(26, 16), medium |-> Dbl(20, 0), high |-> Dbl(14, -16)],
     humidity    |-> [low |-> Dbl(18, 8),  medium |-> Dbl(20, 0), high |-> Dbl(24, -16)],
     pressure    |-> [low |-> Dbl(24, -16), medium |-> Dbl(20, 0), high |-> Dbl(16, 16)],
     temperature |-> [cold |-> Dbl(18, 8), mild |-> Dbl(20, 0), hot |-> Dbl(23, -32)]]

WEATHER_IMPACT_COEFFICIENTS ==
    [windSpeed   |-> [low |-> Dbl(26, 16), medium |-> Dbl(20, 0), high |-> Dbl(14, -16)],
     humidity    |-> [low |-> Dbl(18, 8),  medium |-> Dbl(20, 0), high |-> Dbl(24, -16)],
     pressure    |-> [low |-> Dbl(24, -16), medium |-> Dbl(20, 0), high |-> Dbl(18, 8)],
     temperature |-> [cold |-> Dbl(18, 8), mild |-> Dbl(20, 0), hot |-> Dbl(23, -32)]]

\* mutant: the low-wind threshold includes 5
windEffectInclusive(w) ==
    IF w.windSpeed <= 5 THEN WEATHER_IMPACT_COEFFICIENTS.windSpeed.low
    ELSE IF w.windSpeed > 15 THEN WEATHER_IMPACT_COEFFICIENTS.windSpeed.high
    ELSE WEATHER_IMPACT_COEFFICIENTS.windSpeed.medium

windEffect(w) ==
    IF w.windSpeed < 5 THEN WEATHER_IMPACT_COEFFICIENTS.windSpeed.low
    ELSE IF w.windSpeed > 15 THEN WEATHER_IMPACT_COEFFICIENTS.windSpeed.high
    ELSE WEATHER_IMPACT_COEFFICIENTS.windSpeed.medium

humidityEffect(w) ==
    IF w.humidity < 40 THEN WEATHER_IMPACT_COEFFICIENTS.humidity.low
    ELSE IF w.humidity > 70 THEN WEATHER_IMPACT_COEFFICIENTS.humidity.high
    ELSE WEATHER_IMPACT_COEFFICIENTS.humidity.medium

pressureEffect(w) ==
    IF w.pressure < 1013 THEN WEATHER_IMPACT_COEFFICIENTS.pressure.low
    ELSE IF w.pressure > 1023 THEN WEATHER_IMPACT_COEFFICIENTS.pressure.high
    ELSE WEATHER_IMPACT_COEFFICIENTS.pressure.medium

temperatureEffect(w) ==
    IF w.temperature < 15 THEN WEATHER_IMPACT_COEFFICIENTS.temperature.cold
    ELSE IF w.temperature > 25 THEN WEATHER_IMPACT_COEFFICIENTS.temperature.hot
    ELSE WEATHER_IMPACT_COEFFICIENTS.temperature.mild

\* (windEffect + humidityEffect + pressureEffect + temperatureEffect) / 4
totalMultiplier(w) ==
    DblQuarter(DblAdd(DblAdd(DblAdd(windEffect(w), humidityEffect(w)),
                             pressureEffect(w)), temperatureEffect(w)))

calculateWeatherImpact(w) ==
    [windEffect |-> windEffect(w), humidityEffect |-> humidityEffect(w),
     pressureEffect |-> pressureEffect(w), temperatureEffect |-> temperatureEffect(w),
     totalMultiplier |-> totalMultiplier(w)]

---------------------------------------------------------------------------
(* analyzeAQITrend.  A history is the sequence of the readings' aqi fields *)
(* (the only field the function reads).  Math.sqrt is kept symbolic:       *)
(* volatility is [sqrtOf |-> variance].                                    *)

\* mutant: the whole history is fitted
SliceNone(h) == h

\* historical.slice(-6)
SliceLast6(h) == IF Len(h) <= 6 THEN h ELSE SubSeq(h, Len(h) - 5, Len(h))

\* reduce((sum, y, i) => sum + i * y, 0), i counted from 0
RECURSIVE XYSum(_, _)
XYSum(s, i) ==
    IF s = <<>> THEN R(0) ELSE RAdd(RMul(R(i), s[1]), XYSum(Tail(s), i + 1))

\* reduce((sum, aqi) => sum + Math.pow(aqi - averageAQI, 2), 0)
RECURSIVE SqDevSum(_, _)
SqDevSum(s, avg) ==
    IF s = <<>> THEN R(0)
    ELSE RAdd(RMul(RSub(s[1], avg), RSub(s[1], avg)), SqDevSum(Tail(s), avg))

analyzeAQITrend(h) ==
    IF Len(h) < 2
    THEN [trend |-> "stable", volatility |-> [sqrtOf |-> R(0)],
          \* historical[0]?.aqi || 50 : an absent or zero aqi is falsy
          averageAQI |-> IF Len(h) = 0 \/ h[1] = R(0) THEN R(50) ELSE h[1]]
    ELSE
        LET aqiValues == SliceLast6(h)
            n == Len(aqiValues)
            averageAQI == RDiv(RSum(aqiValues), R(n))
            xSum == (n * (n - 1)) \div 2
            ySum == RSum(aqiValues)
            xySum == XYSum(aqiValues, 0)
            xxSum == (n * (n - 1) * (2 * n - 1)) \div 6
            slope == RDiv(RSub(RMul(R(n), xySum), RMul(R(xSum), ySum)),
                          R(n * xxSum - xSum * xSum))
            variance == RDiv(SqDevSum(aqiValues, averageAQI), R(n))
            trend == IF RLt(slope, Rat(-1, 2)) THEN "improving"
                     ELSE IF RLt(Rat(1, 2), slope) THEN "deteriorating"
                     ELSE "stable"
        IN  [trend |-> trend, volatility |-> [sqrtOf |-> variance],
             averageAQI |-> averageAQI]

---------------------------------------------------------------------------
(* generatePredictiveForecast: the map callback *)

\* sqrt(v) <= c and sqrt(v) < c, for rationals v >= 0 and c
SqrtLe(v, c) == RLe(R(0), c) /\ RLe(v, RMul(c, c))
SqrtLt(v, c) == RLt(R(0), c) /\ RLt(v, RMul(c, c))

\* 1 - (volatility / 100) - (index * 0.05) >= t, and > t:
\* volatility <= 100 * (1 - index/20 - t)
RawConfidenceGe(vol, i, t) ==
    SqrtLe(vol.sqrtOf, RMul(R(100), RSub(RSub(R(1), Rat(i, 20)), t)))
RawConfidenceGt(vol, i, t) ==
    SqrtLt(vol.sqrtOf, RMul(R(100), RSub(RSub(R(1), Rat(i, 20)), t)))

\* Math.round(x * 100) for x = 1 - volatility/100 - index*0.05: the largest
\* k with x * 100 + 0.5 >= k, that is volatility <= (201 - 10*index - 2k)/2;
\* searched downwards from k
RECURSIVE RoundDownFrom(_, _, _)
RoundDownFrom(vol, i, k) ==
    LET c2 == 201 - 10 * i - 2 * k
    IN  IF c2 >= 0 /\ 4 * vol.sqrtOf.n <= c2 * c2 * vol.sqrtOf.d
        THEN k ELSE RoundDownFrom(vol, i, k - 1)
RawConfidenceRound100(vol, i) == RoundDownFrom(vol, i, 100)

\* mutant: the lower clamp Math.max(0.3, ...) is missing
ConfidenceNoFloor(vol, i) ==
    IF RawConfidenceGe(vol, i, Rat(95, 100))
    THEN Rat(MathRound(RMul(Rat(95, 100), R(100))), 100)
    ELSE Rat(RawConfidenceRound100(vol, i), 100)

\* mutant: the horizon term is added, 1 - volatility/100 + index*0.05
ConfidenceRising(vol, i) ==
    IF RawConfidenceGe(vol, -i, Rat(95, 100))
    THEN Rat(MathRound(RMul(Rat(95, 100), R(100))), 100)
    ELSE IF ~RawConfidenceGt(vol, -i, Rat(3, 10))
    THEN Rat(MathRound(RMul(Rat(3, 10), R(100))), 100)
    ELSE Rat(RawConfidenceRound100(vol, -i), 100)

\* Math.round(Math.max(0.3, Math.min(0.95, x)) * 100) / 100
Confidence(vol, i) ==
    IF RawConfidenceGe(vol, i, Rat(95, 100))
    THEN Rat(MathRound(RMul(Rat(95, 100), R(100))), 100)
    ELSE IF ~RawConfidenceGt(vol, i, Rat(3, 10))
    THEN Rat(MathRound(RMul(Rat(3, 10), R(100))), 100)
    ELSE Rat(RawConfidenceRound100(vol, i), 100)

BaseAQI(pTrend, rTrend) ==
    IF rTrend # <<>>
    THEN RAdd(RMul(pTrend.averageAQI, RSub(R(1), Rat(3, 10))),
              RMul(rTrend[1].averageAQI, Rat(3, 10)))
    ELSE pTrend.averageAQI

TrendModifier(pTrend) ==
    IF pTrend.trend = "improving" THEN Rat(95, 100)
    ELSE IF pTrend.trend = "deteriorating" THEN Rat(105, 100)
    ELSE R(1)

\* mutant: the exponent is index instead of index + 1
TimeMultiplierFromIndex(pTrend, i) == RPow(TrendModifier(pTrend), i)

TimeMultiplier(pTrend, i) == RPow(TrendModifier(pTrend), i + 1)

\* Math.max(0, Math.round(baseAQI * timeMultiplier * totalMultiplier))
PredictedAQI(pTrend, rTrend, impact, i) ==
    LET x == RMul(RMul(BaseAQI(pTrend, rTrend), TimeMultiplier(pTrend, i)),
                  DblRat(impact.totalMultiplier))
        r == MathRound(x)
    IN  IF r < 0 THEN 0 ELSE r

\* the literals 0.95 = 19/20 - 16U and 1.05 = 21/20 + 16U
Prediction(impact) ==
    IF DblLt(impact.totalMultiplier, Dbl(19, -16)) THEN "improving"
    ELSE IF DblGt(impact.totalMultiplier, Dbl(21, 16)) THEN "deteriorating"
    ELSE "stable"

\* mutant: the step index is emitted as the hour
ForecastPointHourIsIndex(w, i, pTrend, rTrend) ==
    LET impact == calculateWeatherImpact(w)
        predictedAQI == PredictedAQI(pTrend, rTrend, impact, i)
    IN  [hour |-> i,
         aqi |-> predictedAQI,
         status |-> getAQIStatus(R(predictedAQI)),
         confidence |-> Confidence(pTrend.volatility, i),
         weatherFactors |-> [windEffect |-> impact.windEffect,
                             humidityEffect |-> impact.humidityEffect,
                             pressureEffect |-> impact.pressureEffect,
                             temperatureEffect |-> impact.temperatureEffect],
         prediction |-> Prediction(impact)]

ForecastPoint(w, i, pTrend, rTrend) ==
    LET impact == calculateWeatherImpact(w)
        predictedAQI == PredictedAQI(pTrend, rTrend, impact, i)
    IN  [hour |-> w.hour,
         aqi |-> predictedAQI,
         status |-> getAQIStatus(R(predictedAQI)),
         confidence |-> Confidence(pTrend.volatility, i),
         weatherFactors |-> [windEffect |-> impact.windEffect,
                             humidityEffect |-> impact.humidityEffect,
                             pressureEffect |-> impact.pressureEffect,
                             temperatureEffect |-> impact.temperatureEffect],
         prediction |-> Prediction(impact)]

---------------------------------------------------------------------------
(* MemStorage.  A Map is the sequence of its values in insertion order     *)
(* (every value carries its key as the field id).  Coordinates are whole   *)
(* multiples of 1/CoordScale degree.                                       *)

CoordScale == 10000

\* Map.prototype.set: an existing key keeps its place and gets the new value
MapSet(m, id, value) ==
    IF \E k \in 1..Len(m) : m[k].id = id
    THEN [k \in 1..Len(m) |-> IF m[k].id = id THEN value ELSE m[k]]
    ELSE Append(m, value)

\* mutant: the counter is read but not advanced
PostIncrementStuck(counter) == [value |-> counter, next |-> counter]

\* counter++ : the value of the expression and the counter afterwards
PostIncrement(counter) == [value |-> counter, next |-> counter + 1]

\* a ?? null
OrNull(a) == IF a = Undefined \/ a = Null THEN Null ELSE a

\* the sample news articles (title, category, age of publishedAt in hours)
sampleNews ==
    << [title |-> "Global Air Quality Standards Updated: What You Need to Know",
        category |-> "Environment", publishedHoursAgo |-> 2],
       [title |-> "How Air Quality Affects Your Daily Exercise Routine",
        category |-> "Health", publishedHoursAgo |-> 4],
       [title |-> "New IoT Sensors Revolutionize Air Quality Monitoring",
        category |-> "Technology", publishedHoursAgo |-> 6],
       [title |-> "Study Links Indoor Air Quality to Productivity",
        category |-> "Research", publishedHoursAgo |-> 24] >>

sampleStations ==
    << [name |-> "Downtown SF", latitude |-> 377749, longitude |-> -1224094,
        aqi |-> 38, status |-> "Good"],
       [name |-> "Mission District", latitude |-> 377599, longitude |-> -1224148,
        aqi |-> 65, status |-> "Moderate"],
       [name |-> "Golden Gate Park", latitude |-> 377694, longitude |-> -1224862,
        aqi |-> 42, status |-> "Good"] >>

\* { ...record, id }
WithId(record, id) ==
    [f \in DOMAIN record \cup {"id"} |-> IF f = "id" THEN id ELSE record[f]]

\* samples.forEach(x => { const id = this.counter++; this.map.set(id, {...x, id}) })
RECURSIVE SeedAll(_, _, _)
SeedAll(m, counter, samples) ==
    IF samples = <<>> THEN [map |-> m, counter |-> counter]
    ELSE LET id == PostIncrement(counter)
         IN  SeedAll(MapSet(m, id.value, WithId(samples[1], id.value)), id.next,
                     Tail(samples))

\* new MemStorage(): empty maps, counters at 1, then initializeSampleData()
SeededNews == SeedAll(<<>>, 1, sampleNews)
SeededStations == SeedAll(<<>>, 1, sampleStations)

\* a/b <= c/d for a, c >= 0 and b, d > 0, without forming the cross products
RECURSIVE FracLe(_, _, _, _)
FracLe(a, b, c, d) ==
    LET qa == a \div b
        qc == c \div d
        ra == a % b
        rc == c % d
    IN  IF qa # qc THEN qa < qc
        ELSE IF ra = 0 THEN TRUE
        ELSE IF rc = 0 THEN FALSE
        ELSE FracLe(d, rc, b, ra)

\* Math.pow(station.latitude - latitude, 2) + Math.pow(station.longitude - longitude, 2),
\* in units of 1/CoordScale^2 square degrees
DegreesSquared(station, lat, lon) ==
    (station.latitude - lat) * (station.latitude - lat)
        + (station.longitude - lon) * (station.longitude - lon)

\* mutant: a station exactly at the radius is left out
WithinRadiusStrict(station, lat, lon, radius) ==
    /\ RLt(R(0), radius)
    /\ ~FracLe(radius.n * radius.n, 111 * 111 * radius.d * radius.d,
               DegreesSquared(station, lat, lon), CoordScale * CoordScale)

\* Math.sqrt(...) * 111 <= radius, compared through the squares:
\* degreesSquared / CoordScale^2 <= radius^2 / 111^2
WithinRadius(station, lat, lon, radius) ==
    /\ RLe(R(0), radius)
    /\ FracLe(DegreesSquared(station, lat, lon), CoordScale * CoordScale,
              radius.n * radius.n, 111 * 111 * radius.d * radius.d)

\* Array.prototype.filter
RECURSIVE FilterWithin(_, _, _, _)
FilterWithin(stations, lat, lon, radius) ==
    IF stations = <<>> THEN <<>>
    ELSE (IF WithinRadius(stations[1], lat, lon, radius) THEN <<stations[1]>> ELSE <<>>)
             \o FilterWithin(Tail(stations), lat, lon, radius)

\* the comparator (a, b) => distanceA - distanceB is negative, zero or positive
\* as the squared distances compare
CompareDistance(a, b, lat, lon) ==
    DegreesSquared(a, lat, lon) - DegreesSquared(b, lat, lon)

\* x put into a sorted sequence behind every element that does not compare
\* greater (Array.prototype.sort is stable)
RECURSIVE InsertSorted(_, _, _, _)
InsertSorted(sorted, x, lat, lon) ==
    IF sorted = <<>> THEN <<x>>
    ELSE IF CompareDistance(sorted[1], x, lat, lon) > 0 THEN <<x>> \o sorted
    ELSE <<sorted[1]>> \o InsertSorted(Tail(sorted), x, lat, lon)

RECURSIVE SortByDistance(_, _, _)
SortByDistance(stations, lat, lon) ==
    IF stations = <<>> THEN <<>>
    ELSE InsertSorted(SortByDistance(SubSeq(stations, 1, Len(stations) - 1), lat, lon),
                      stations[Len(stations)], lat, lon)

\* radius: number = 50
RadiusOrDefault(radius) == IF radius = <<>> THEN R(50) ELSE radius[1]

getNearbyStations(stations, lat, lon, radius) ==
    SortByDistance(FilterWithin(stations, lat, lon, RadiusOrDefault(radius)), lat, lon)

---------------------------------------------------------------------------
(* Sensor selection.  Sensor and query coordinates are whole multiples of  *)
(* 1/SensorScale degree.                                                   *)

SensorScale == 10000000

sensorLocations ==
    << [name |-> "Bandar Ipoh", latitude |-> R(46072110), longitude |-> R(1010909180),
        apiUrl |-> "https://api.thingspeak.com/channels/1656794/feeds.json?api_key=18T27314PL23U160&results=1",
        rawDataUrl |-> "https://api.thingspeak.com/channels/2765275/feeds.json?api_key=RT85EGJQSJQKJ0ZL&results=1"],
       [name |-> "Perindustrian Tasek", latitude |-> R(46396970), longitude |-> R(1011020870),
        apiUrl |-> "https://api.thingspeak.com/channels/1656796/feeds.json?api_key=0Q18INS0V5WK69JV&results=1",
        rawDataUrl |-> "https://api.thingspeak.com/channels/2765301/feeds.json?api_key=2XWVN6TDCAV3VKFD&results=1"] >>

\* sensorLocations.find(sensor => sensor.apiUrl === apiUrl) || selectedSensor
RECURSIVE FindByApiUrl(_, _, _)
FindByApiUrl(sensors, apiUrl, fallback) ==
    IF sensors = <<>> THEN fallback
    ELSE IF sensors[1].apiUrl = apiUrl THEN sensors[1]
    ELSE FindByApiUrl(Tail(sensors), apiUrl, fallback)

\* mutant: an equally distant later sensor replaces the closest so far
CloserOrEqual(currentDistance, closestDistance) ==
    NumLt(currentDistance, closestDistance) \/ currentDistance = closestDistance

\* currentDistance < closestDistance
Closer(currentDistance, closestDistance) == NumLt(currentDistance, closestDistance)

\* sensorLocations.reduce((closest, current) => ...): the index of the result,
\* closest being the accumulator and current the index visited; dist[k] is
\* calculateDistance(latitude, longitude, sensor k)
RECURSIVE ReduceClosest(_, _, _)
ReduceClosest(dist, closest, current) ==
    IF current > Len(dist) THEN closest
    ELSE ReduceClosest(dist,
                       IF Closer(dist[current], dist[closest]) THEN current ELSE closest,
                       current + 1)

\* lines 136-147
SelectSensor(apiUrl, dist) ==
    IF apiUrl # ""
    THEN FindByApiUrl(sensorLocations, apiUrl, sensorLocations[1])
    ELSE sensorLocations[ReduceClosest(dist, 1, 2)]

sensorChannels ==
    << [key |-> "bandar_ipoh", name |-> "Bandar Ipoh",
        lat |-> R(46072110), lon |-> R(1010909180)],
       [key |-> "perindustrian_tasek", name |-> "Perindustrian Tasek",
        lat |-> R(46396970), lon |-> R(1011020870)] >>

\* Math.abs(lat - sensor.lat) + Math.abs(lon - sensor.lon)
ManhattanDistance(lat, lon, sensor) ==
    NumAdd(NumAbsDiff(lat, sensor.lat), NumAbsDiff(lon, sensor.lon))

\* the for loop of findNearestSensor from its k-th entry on
RECURSIVE NearestFrom(_, _, _, _, _)
NearestFrom(lat, lon, k, minDistance, nearest) ==
    IF k > Len(sensorChannels) THEN nearest
    ELSE LET distance == ManhattanDistance(lat, lon, sensorChannels[k])
         IN  IF NumLt(distance, minDistance)
             THEN NearestFrom(lat, lon, k + 1, distance, sensorChannels[k].key)
             ELSE NearestFrom(lat, lon, k + 1, minDistance, nearest)

findNearestSensor(lat, lon) == NearestFrom(lat, lon, 1, Infinity, "bandar_ipoh")

---------------------------------------------------------------------------
(* Input domains.  On the domains of Spec no product is within a rounding  *)
(* error of a tie of Math.round, so the exact results are the program's.   *)

MaxHistory == 3        \* longest primary history of Spec
MaxSteps == 2          \* longest weather forecast of Spec
MaxTrendHistory == 7   \* longest history of SpecTrend (slice(-6) drops one)
ClassifyBelow == 20    \* SpecClassify: aqi from -ClassifyBelow/2 ...
ClassifyAbove == 620   \* ... to ClassifyAbove/2, in steps of 1/2
MaxCreates == 3        \* SpecStorage: create calls made on the store
MaxDistance == 3       \* SpecNearest: distances are 0 .. MaxDistance

RECURSIVE SeqsUpTo(_, _)
SeqsUpTo(S, k) ==
    IF k = 0 THEN {<<>>}
    ELSE LET shorter == SeqsUpTo(S, k - 1)
         IN  shorter \cup {Append(q, x) : q \in {t \in shorter : Len(t) = k - 1}, x \in S}

\* aqi: parseFloat(feed.field6) || 0  -- any number the feed holds
AQIValues == {R(-20), R(0), R(60), R(320)}
ScenarioHistory == <<R(40), R(42), R(45), R(48), R(50), R(55)>>
Histories == SeqsUpTo(AQIValues, MaxHistory) \cup {ScenarioHistory}

NeutralWeather ==
    [hour |-> 0, temperature |-> 20, humidity |-> 50, windSpeed |-> 10, pressure |-> 1015]
StagnantWeather ==
    [hour |-> 13, temperature |-> 30, humidity |-> 80, windSpeed |-> 2, pressure |-> 1005]
WindyWeather ==
    [hour |-> 23, temperature |-> 10, humidity |-> 30, windSpeed |-> 20, pressure |-> 1030]
WeatherPoints == {NeutralWeather, StagnantWeather, WindyWeather}
WeatherSeqs == SeqsUpTo(WeatherPoints, MaxSteps)

\* regionalData: undefined, or a history (the handler passes undefined for an
\* empty secondary history; the function itself accepts an empty array)
Regionals == {<<>>, << <<>> >>, << <<R(60)>> >>, << <<R(100), R(200)>> >>}

TrendValues == {R(0), Rat(1, 2), R(50)}
TrendHistories == SeqsUpTo(TrendValues, MaxTrendHistory)

WeatherInputs ==
    [hour : {0}, temperature : {14, 15, 25, 26}, humidity : {39, 40, 70, 71},
     windSpeed : {4, 5, 15, 16}, pressure : {1012, 1013, 1023, 1024}]

ClassifyInputs == {Rat(k, 2) : k \in -ClassifyBelow..ClassifyAbove}

\* arguments of the MemStorage create methods
InsertUsers ==
    {[username |-> "ana", password |-> "secret"],
     [username |-> "ben", password |-> "secret"]}
InsertAirQualityDatas ==
    {[latitude |-> R(46072110), longitude |-> R(1010909180), aqi |-> R(60),
      pm25 |-> R(12), pm10 |-> Null, no2 |-> Undefined, o3 |-> Undefined,
      so2 |-> Undefined, co |-> Undefined]}
InsertNewsArticles ==
    {[title |-> "Haze season begins", category |-> "Environment",
      imageUrl |-> Undefined]}
\* Ocean Beach is at 37.75, -122.5; Downtown Annex shares the coordinates of
\* the sample station Downtown SF
InsertStations ==
    {[name |-> "Ocean Beach", latitude |-> 377500, longitude |-> -1225000,
      aqi |-> 30, status |-> "Good"],
     [name |-> "Downtown Annex", latitude |-> 377749, longitude |-> -1224094,
      aqi |-> 38, status |-> "Good"]}

\* arguments of getNearbyStations: 38.125, -122.0 is 0.625 degrees (69.375 km
\* by the approximation) from Ocean Beach
StationQueries ==
    {[latitude |-> 381250, longitude |-> -1220000],
     [latitude |-> 377749, longitude |-> -1224094],
     [latitude |-> 377650, longitude |-> -1224500]}
Radii == {<<>>, <<Rat(555, 8)>>, <<R(5)>>, <<R(0)>>, <<R(-1)>>}

\* req.query of the sensor-selecting handlers
LatTexts == {R(46072110), R(46396970), R(46000000), R(47000000), R(0), Infinity, JunkText}
LonTexts == {R(1010909180), R(1011020870), R(1012000000)}
ApiUrls == {"", sensorLocations[2].apiUrl, "https://example.org/feeds.json"}
NearestRequests == [lat : LatTexts, lon : LonTexts, apiUrl : ApiUrls]

\* what calculateDistance returns for the two sensors: two distances that are
\* not both 0 (the sensors are apart), or NaN twice when a coordinate is not
\* a finite number
DistancesFor(latitude, longitude) ==
    IF IsNumber(latitude) /\ IsNumber(longitude)
    THEN {<<R(a), R(b)>> : a \in 0..MaxDistance, b \in 0..MaxDistance} \ {<<R(0), R(0)>>}
    ELSE {<<NaN, NaN>>}

---------------------------------------------------------------------------
(* Spec: generatePredictiveForecast(currentAQI, weatherForecast, regionalData) *)

IdleForecast ==
    /\ currentAQI = <<>> /\ weatherForecast = <<>> /\ regionalData = <<>>
    /\ primaryTrend = <<>> /\ regionalTrend = <<>> /\ index = 0 /\ forecast = <<>>
IdleTrend == historical = <<>> /\ trendSummary = <<>>
IdleWeather == weather = NeutralWeather /\ weatherImpact = <<>>
IdleClassify == aqi = R(0) /\ status = ""

\* the store as the MemStorage constructor leaves it
IdleStorage ==
    /\ users = <<>> /\ currentUserId = 1
    /\ airQualityData = <<>> /\ currentAirQualityId = 1
    /\ newsArticles = SeededNews.map /\ currentNewsId = SeededNews.counter
    /\ airQualityStations = SeededStations.map
    /\ currentStationId = SeededStations.counter
    /\ creations = <<>> /\ nearbyStations = <<>>
IdleRequest == request = [lat |-> Undefined, lon |-> Undefined, apiUrl |-> ""]
IdleSensor == distances = <<>> /\ selectedSensor = <<>> /\ nearestSensor = ""
IdleHandler ==
    /\ upstream = <<>> /\ fetches = <<>> /\ response = <<>> /\ received = <<>>
    /\ primaryAQIHistory = <<>> /\ secondaryAQIHistory = <<>>
IdleService == IdleStorage /\ IdleRequest /\ IdleSensor /\ IdleHandler

Init ==
    /\ pc = "call"
    /\ currentAQI \in Histories
    /\ weatherForecast \in WeatherSeqs
    /\ regionalData \in Regionals
    /\ primaryTrend = <<>> /\ regionalTrend = <<>> /\ index = 0 /\ forecast = <<>>
    /\ IdleTrend /\ IdleWeather /\ IdleClassify /\ IdleService

\* mutant: the guard forgets the primary history
EmptyInputWeatherOnly(cur, wf) == Len(wf) = 0

\* !currentAQI.length || !weatherForecast.length
EmptyInput(cur, wf) == Len(cur) = 0 \/ Len(wf) = 0

\* if (!currentAQI.length || !weatherForecast.length) return [];
ReturnEmpty ==
    /\ pc = "call"
    /\ EmptyInput(currentAQI, weatherForecast)
    /\ forecast' = <<>>
    /\ pc' = "done"
    /\ UNCHANGED <<currentAQI, weatherForecast, regionalData, primaryTrend,
                   regionalTrend, index, trendVars, weatherVars, classifyVars, serviceVars>>

\* primaryTrend = analyzeAQITrend(currentAQI);
\* regionalTrend = regionalData ? analyzeAQITrend(regionalData) : null;
AnalyzeTrends ==
    /\ pc = "call"
    /\ ~EmptyInput(currentAQI, weatherForecast)
    /\ primaryTrend' = <<analyzeAQITrend(currentAQI)>>
    /\ regionalTrend' = IF regionalData # <<>>
                        THEN <<analyzeAQITrend(regionalData[1])>> ELSE <<>>
    /\ index' = 0
    /\ pc' = "map"
    /\ UNCHANGED <<currentAQI, weatherForecast, regionalData, forecast,
                   trendVars, weatherVars, classifyVars, serviceVars>>

\* one call of the weatherForecast.map callback
MapCallback ==
    /\ pc = "map"
    /\ index < Len(weatherForecast)
    /\ forecast' = Append(forecast,
                          ForecastPoint(weatherForecast[index + 1], index,
                                        primaryTrend[1], regionalTrend))
    /\ index' = index + 1
    /\ UNCHANGED <<pc, currentAQI, weatherForecast, regionalData, primaryTrend,
                   regionalTrend, trendVars, weatherVars, classifyVars, serviceVars>>

\* map has visited every weather point: its array is returned
ReturnForecast ==
    /\ pc = "map"
    /\ index = Len(weatherForecast)
    /\ pc' = "done"
    /\ UNCHANGED <<forecastVars, trendVars, weatherVars, classifyVars, serviceVars>>

Next == ReturnEmpty \/ AnalyzeTrends \/ MapCallback \/ ReturnForecast

Spec == Init /\ [][Next]_vars

---------------------------------------------------------------------------
(* SpecTrend: analyzeAQITrend(historical) *)

InitTrend ==
    /\ pc = "call"
    /\ historical \in TrendHistories
    /\ trendSummary = <<>>
    /\ IdleForecast /\ IdleWeather /\ IdleClassify /\ IdleService

CallAnalyzeAQITrend ==
    /\ pc = "call"
    /\ trendSummary' = <<analyzeAQITrend(historical)>>
    /\ pc' = "done"
    /\ UNCHANGED <<historical, forecastVars, weatherVars, classifyVars, serviceVars>>

NextTrend == CallAnalyzeAQITrend

SpecTrend == InitTrend /\ [][NextTrend]_vars

---------------------------------------------------------------------------
(* SpecWeather: calculateWeatherImpact(weather) *)

InitWeather ==
    /\ pc = "call"
    /\ weather \in WeatherInputs
    /\ weatherImpact = <<>>
    /\ IdleForecast /\ IdleTrend /\ IdleClassify /\ IdleService

CallCalculateWeatherImpact ==
    /\ pc = "call"
    /\ weatherImpact' = <<calculateWeatherImpact(weather)>>
    /\ pc' = "done"
    /\ UNCHANGED <<weather, forecastVars, trendVars, classifyVars, serviceVars>>

NextWeather == CallCalculateWeatherImpact

SpecWeather == InitWeather /\ [][NextWeather]_vars

---------------------------------------------------------------------------
(* SpecClassify: getAQIStatus(aqi) *)

InitClassify ==
    /\ pc = "call"
    /\ aqi \in ClassifyInputs
    /\ status = ""
    /\ IdleForecast /\ IdleTrend /\ IdleWeather /\ IdleService

CallGetAQIStatus ==
    /\ pc = "call"
    /\ status' = getAQIStatus(aqi)
    /\ pc' = "done"
    /\ UNCHANGED <<aqi, forecastVars, trendVars, weatherVars, serviceVars>>

NextClassify == CallGetAQIStatus

SpecClassify == InitClassify /\ [][NextClassify]_vars

---------------------------------------------------------------------------
(* SpecStorage: the MemStorage singleton under create calls and            *)
(* getNearbyStations calls made in any order.  The body of each method     *)
(* holds no await, so it runs to its return without interleaving.          *)

InitStorage ==
    /\ pc = "storage"
    /\ IdleStorage /\ IdleRequest /\ IdleSensor /\ IdleHandler
    /\ IdleForecast /\ IdleTrend /\ IdleWeather /\ IdleClassify

createUser(insertUser) ==
    LET id == PostIncrement(currentUserId)
        user == WithId(insertUser, id.value)
    IN  /\ currentUserId' = id.next
        /\ users' = MapSet(users, id.value, user)
        /\ creations' = Append(creations, [kind |-> "user", record |-> user])
        /\ UNCHANGED <<dataVars, newsVars, stationVars, nearbyStations>>

\* mutant: the record is built and returned but never put into the map
createAirQualityDataUnsaved(data) ==
    LET id == PostIncrement(currentAirQualityId)
        airQualityRecord ==
            [WithId(data, id.value) EXCEPT
                !.pm25 = OrNull(data.pm25), !.pm10 = OrNull(data.pm10),
                !.no2 = OrNull(data.no2), !.o3 = OrNull(data.o3),
                !.so2 = OrNull(data.so2), !.co = OrNull(data.co)]
    IN  /\ currentAirQualityId' = id.next
        /\ airQualityData' = airQualityData
        /\ creations' = Append(creations, [kind |-> "airQualityData",
                                           record |-> airQualityRecord])
        /\ UNCHANGED <<userVars, newsVars, stationVars, nearbyStations>>

\* the record also gets timestamp: new Date(), which nothing reads
createAirQualityData(data) ==
    LET id == PostIncrement(currentAirQualityId)
        airQualityRecord ==
            [WithId(data, id.value) EXCEPT
                !.pm25 = OrNull(data.pm25), !.pm10 = OrNull(data.pm10),
                !.no2 = OrNull(data.no2), !.o3 = OrNull(data.o3),
                !.so2 = OrNull(data.so2), !.co = OrNull(data.co)]
    IN  /\ currentAirQualityId' = id.next
        /\ airQualityData' = MapSet(airQualityData, id.value, airQualityRecord)
        /\ creations' = Append(creations, [kind |-> "airQualityData",
                                           record |-> airQualityRecord])
        /\ UNCHANGED <<userVars, newsVars, stationVars, nearbyStations>>

createNewsArticle(article) ==
    LET id == PostIncrement(currentNewsId)
        newsArticle ==
            [f \in DOMAIN article \cup {"id", "publishedHoursAgo"} |->
                IF f = "id" THEN id.value
                ELSE IF f = "publishedHoursAgo" THEN 0
                ELSE IF f = "imageUrl" THEN OrNull(article.imageUrl)
                ELSE article[f]]
    IN  /\ currentNewsId' = id.next
        /\ newsArticles' = MapSet(newsArticles, id.value, newsArticle)
        /\ creations' = Append(creations, [kind |-> "newsArticle",
                                           record |-> newsArticle])
        /\ UNCHANGED <<userVars, dataVars, stationVars, nearbyStations>>

createAirQualityStation(station) ==
    LET id == PostIncrement(currentStationId)
        airQualityStation == WithId(station, id.value)
    IN  /\ currentStationId' = id.next
        /\ airQualityStations' = MapSet(airQualityStations, id.value, airQualityStation)
        /\ creations' = Append(creations, [kind |-> "airQualityStation",
                                           record |-> airQualityStation])
        /\ UNCHANGED <<userVars, dataVars, newsVars, nearbyStations>>

CallCreateUser ==
    /\ pc = "storage" /\ Len(creations) < MaxCreates
    /\ \E insertUser \in InsertUsers : createUser(insertUser)
    /\ UNCHANGED <<pc, coreVars, request, sensorVars, handlerVars>>

CallCreateAirQualityData ==
    /\ pc = "storage" /\ Len(creations) < MaxCreates
    /\ \E data \in InsertAirQualityDatas : createAirQualityData(data)
    /\ UNCHANGED <<pc, coreVars, request, sensorVars, handlerVars>>

CallCreateNewsArticle ==
    /\ pc = "storage" /\ Len(creations) < MaxCreates
    /\ \E article \in InsertNewsArticles : createNewsArticle(article)
    /\ UNCHANGED <<pc, coreVars, request, sensorVars, handlerVars>>

CallCreateAirQualityStation ==
    /\ pc = "storage" /\ Len(creations) < MaxCreates
    /\ \E station \in InsertStations : createAirQualityStation(station)
    /\ UNCHANGED <<pc, coreVars, request, sensorVars, handlerVars>>

\* values is the array Array.from(this.airQualityStations.values()) builds
CallGetNearbyStations ==
    /\ pc = "storage"
    /\ \E q \in StationQueries, radius \in Radii :
           nearbyStations' =
               << [latitude |-> q.latitude, longitude |-> q.longitude,
                   radius |-> radius, values |-> airQualityStations,
                   result |-> getNearbyStations(airQualityStations, q.latitude,
                                                q.longitude, radius)] >>
    /\ UNCHANGED <<pc, userVars, dataVars, newsVars, stationVars, creations,
                   coreVars, request, sensorVars, handlerVars>>

NextStorage ==
    \/ CallCreateUser
    \/ CallCreateAirQualityData
    \/ CallCreateNewsArticle
    \/ CallCreateAirQualityStation
    \/ CallGetNearbyStations

SpecStorage == InitStorage /\ [][NextStorage]_vars

---------------------------------------------------------------------------
(* SpecNearest: the sensor selection of the two GET /api/air-quality       *)
(* handlers for one request with both coordinates given.                   *)

InitNearest ==
    /\ pc = "nearest"
    /\ request \in NearestRequests
    /\ distances \in DistancesFor(parseFloat(request.lat), parseFloat(request.lon))
    /\ selectedSensor = <<>> /\ nearestSensor = ""
    /\ IdleStorage /\ IdleHandler
    /\ IdleForecast /\ IdleTrend /\ IdleWeather /\ IdleClassify

\* routes, lines 136-147
RoutesSelectSensor ==
    /\ pc = "nearest"
    /\ selectedSensor = <<>>
    /\ selectedSensor' = <<SelectSensor(request.apiUrl, distances)>>
    /\ UNCHANGED <<pc, coreVars, storageVars, handlerVars, request, distances,
                   nearestSensor>>

\* standalone server, lines 330-333
StandaloneFindNearestSensor ==
    /\ pc = "nearest"
    /\ nearestSensor = ""
    /\ nearestSensor' = findNearestSensor(OrElse(parseFloat(request.lat), R(46072110)),
                                          OrElse(parseFloat(request.lon), R(1010909180)))
    /\ UNCHANGED <<pc, coreVars, storageVars, handlerVars, request, distances,
                   selectedSensor>>

NextNearest == RoutesSelectSensor \/ StandaloneFindNearestSensor

SpecNearest == InitNearest /\ [][NextNearest]_vars

---------------------------------------------------------------------------
(* The HTTP handlers.  An outbound fetch is unissued, pending, fulfilled   *)
(* with a 2xx response (ok), fulfilled with another status (notOk) or      *)
(* rejected (network error).  A response is [status, error, body]: body    *)
(* holds the JSON sent on success (the forecast points, or the one record  *)
(* of GET /api/air-quality) and is empty on an error.                      *)

Unissued == [url |-> "", state |-> "unissued"]
Outcomes == {"ok", "notOk", "rejected"}

\* the promise of the fetch is fulfilled with a Response object
Fulfilled(fetch) == fetch.state \in {"ok", "notOk"}

\* mutant: the handler goes on as soon as the primary fetch is fulfilled
PrimaryFulfilled(f) == Fulfilled(f.primary)

\* await Promise.all([...]) resumes when every promise is fulfilled ...
AllFulfilled(f) == \A role \in DOMAIN f : Fulfilled(f[role])

\* ... and throws as soon as one of them is rejected
AnyRejected(f) == \E role \in DOMAIN f : f[role].state = "rejected"

ErrorResponse(code, message) == [status |-> code, error |-> message, body |-> <<>>]
OkResponse(json) == [status |-> 200, error |-> "", body |-> json]

\* a pending fetch settles, whatever the handler is doing
FetchSettles ==
    \E role \in DOMAIN fetches, outcome \in Outcomes :
        /\ fetches[role].state = "pending"
        /\ fetches' = [fetches EXCEPT ![role].state = outcome]
        /\ UNCHANGED <<pc, coreVars, storageVars, sensorVars, request, received, upstream,
                       primaryAQIHistory, secondaryAQIHistory, response>>

---------------------------------------------------------------------------
(* SpecForecastHandler: GET /api/air-quality/forecast for one request.     *)
(* A JSON body is [shape, feeds] or [shape, list]: malformed (json()       *)
(* rejects), without the feeds / list member, or with it.                  *)

\* feeds of ThingSpeak: the six fields are texts
FeedModerate ==
    [field1 |-> R(30), field2 |-> Rat(2, 5), field3 |-> R(5), field4 |-> R(20),
     field5 |-> R(12), field6 |-> R(60)]
FeedBeyond ==
    [field1 |-> Null, field2 |-> Null, field3 |-> Null, field4 |-> Null,
     field5 |-> R(-3), field6 |-> R(900)]
FeedNegative ==
    [field1 |-> EmptyText, field2 |-> EmptyText, field3 |-> EmptyText,
     field4 |-> EmptyText, field5 |-> EmptyText, field6 |-> R(-20)]
FeedBlank ==
    [field1 |-> Null, field2 |-> Null, field3 |-> Null, field4 |-> Null,
     field5 |-> JunkText, field6 |-> Null]

\* items of the OpenWeatherMap list (units=metric: wind speed in m/s); main
\* tells whether the item has its main member
NeutralItem ==
    [dt |-> 0, main |-> TRUE, temp |-> Rat(102, 5), humidity |-> 50,
     speed |-> Rat(14, 5), pressure |-> 1015]
StagnantItem ==
    [dt |-> 46800, main |-> TRUE, temp |-> Rat(59, 2), humidity |-> 80,
     speed |-> Rat(1, 2), pressure |-> 1005]
WindyItem ==
    [dt |-> 82800, main |-> TRUE, temp |-> R(10), humidity |-> 30,
     speed |-> Rat(11, 2), pressure |-> 1030]
BrokenItem ==
    [dt |-> 0, main |-> FALSE, temp |-> Undefined, humidity |-> 0,
     speed |-> Undefined, pressure |-> 0]

Malformed == [shape |-> "malformed", feeds |-> <<>>]
NoFeeds == [shape |-> "noFeeds", feeds |-> <<>>]
WithFeeds(feeds) == [shape |-> "feeds", feeds |-> feeds]
MalformedWeather == [shape |-> "malformed", list |-> <<>>]
NoList == [shape |-> "noList", list |-> <<>>]
WithList(list) == [shape |-> "list", list |-> list]

PrimaryBodies ==
    {Malformed, NoFeeds, WithFeeds(<<FeedModerate>>), WithFeeds(<<FeedBlank>>),
     WithFeeds(<<FeedModerate, FeedBeyond>>), WithFeeds(<<FeedBeyond, FeedNegative>>)}
SecondaryBodies == {Malformed, WithFeeds(<<>>), WithFeeds(<<FeedModerate>>)}
WeatherBodies ==
    {MalformedWeather, NoList, WithList(<<NeutralItem>>),
     WithList(<<StagnantItem, WindyItem>>), WithList(<<BrokenItem>>),
     WithList([i \in 1..9 |-> NeutralItem])}

\* the upstreams of one request; a weather list longer than MaxSteps comes
\* with a primary history too short to have a trend
ForecastUpstreams ==
    {u \in [primary : PrimaryBodies, secondary : SecondaryBodies, weather : WeatherBodies] :
        Len(u.weather.list) <= MaxSteps \/ Len(u.primary.feeds) < 2}

\* req.query: a coordinate is absent, empty or a numeric text
ForecastRequests ==
    {[lat |-> Undefined, lon |-> R(1010909180), apiUrl |-> ""],
     [lat |-> R(46072110), lon |-> EmptyText, apiUrl |-> ""],
     [lat |-> R(46072110), lon |-> R(1010909180), apiUrl |-> ""],
     [lat |-> R(46072110), lon |-> R(1010909180), apiUrl |-> sensorLocations[2].apiUrl],
     [lat |-> R(377900000), lon |-> R(1010909180), apiUrl |-> ""]}

\* Math.random() of the eight fallback points, and the hour of Date.now()
RandomDraws ==
    {[i \in 1..8 |-> R(0)], [i \in 1..8 |-> Rat(9, 10)],
     [i \in 1..8 |-> IF i % 2 = 1 THEN Rat(1, 2) ELSE Rat(1, 10)]}
NowHours == {9, 20}

PrimaryHistoryUrl ==
    "https://api.thingspeak.com/channels/1656794/feeds.json?api_key=18T27314PL23U160&results=24"
SecondaryHistoryUrl ==
    "https://api.thingspeak.com/channels/1656796/feeds.json?api_key=0Q18INS0V5WK69JV&results=24"
\* the query of the weather URL carries latitude, longitude and the API key
WeatherForecastUrl == "https://api.openweathermap.org/data/2.5/forecast"

\* apiUrl.replace('results=1', 'results=24')
Results24(apiUrl) ==
    IF apiUrl = sensorLocations[1].apiUrl THEN PrimaryHistoryUrl
    ELSE IF apiUrl = sensorLocations[2].apiUrl THEN SecondaryHistoryUrl
    ELSE apiUrl

\* the URLs of the three fetches; 37.78 degrees is 377800000 / SensorScale
ForecastUrls(req) ==
    IF req.apiUrl # ""
    THEN [primary |-> Results24(req.apiUrl), secondary |-> SecondaryHistoryUrl,
          weather |-> WeatherForecastUrl]
    ELSE IF NumLt(R(377800000), parseFloat(req.lat))
    THEN [primary |-> SecondaryHistoryUrl, secondary |-> PrimaryHistoryUrl,
          weather |-> WeatherForecastUrl]
    ELSE [primary |-> PrimaryHistoryUrl, secondary |-> SecondaryHistoryUrl,
          weather |-> WeatherForecastUrl]

\* !lat || !lon
MissingCoordinates(req) == FalsyText(req.lat) \/ FalsyText(req.lon)

\* data.feeds || []
FeedsOrEmpty(body) == IF body.shape = "feeds" THEN body.feeds ELSE <<>>

\* (weatherData.list || []).slice(0, 8)
Slice8(list) == IF Len(list) <= 8 THEN list ELSE SubSeq(list, 1, 8)

\* the element the feeds.map callbacks make of a feed (location and
\* timestamp are carried along and never read)
HistoryReading(feed) ==
    [aqi |-> OrElse(parseFloat(feed.field6), R(0)),
     pm25 |-> OrElse(parseFloat(feed.field5), R(0)),
     no2 |-> OrElse(parseFloat(feed.field4), R(0)),
     o3 |-> OrElse(parseFloat(feed.field1), R(0)),
     co |-> OrElse(parseFloat(feed.field2), R(0)),
     so2 |-> OrElse(parseFloat(feed.field3), R(0)),
     status |-> getAQIStatus(OrElse(parseFloat(feed.field6), R(0)))]

\* the element the list.map callback makes of a weather item, the server's
\* clock being UTC (windDirection, description and icon are carried along
\* and never read)
WeatherPointOf(item) ==
    [hour |-> (item.dt \div 3600) % 24,
     temperature |-> MathRound(item.temp),
     humidity |-> item.humidity,
     windSpeed |-> MathRound(RMul(OrElse(item.speed, R(0)), Rat(36, 10))),
     pressure |-> item.pressure]

\* what makes the handler throw once Promise.all has resumed it: the primary
\* status, a body that is not JSON, a weather item without main
ForecastThrows(f, up) ==
    \/ f.primary.state # "ok"
    \/ up.primary.shape = "malformed"
    \/ f.secondary.state = "ok" /\ up.secondary.shape = "malformed"
    \/ /\ f.weather.state = "ok"
       /\ \/ up.weather.shape = "malformed"
          \/ \E i \in 1..Len(Slice8(up.weather.list)) : ~up.weather.list[i].main

AqiOf(history) == [i \in 1..Len(history) |-> history[i].aqi]

generatePredictiveForecast(cur, wf, reg) ==
    IF EmptyInput(cur, wf) THEN <<>>
    ELSE LET pTrend == analyzeAQITrend(cur)
             rTrend == IF reg # <<>> THEN <<analyzeAQITrend(reg[1])>> ELSE <<>>
         IN  [i \in 1..Len(wf) |-> ForecastPoint(wf[i], i - 1, pTrend, rTrend)]

\* the fallback forecast of the handler
basicForecast(latestAQI, draws, nowHour) ==
    [i \in 1..8 |->
        LET x == MathRound(RAdd(latestAQI, RMul(RSub(draws[i], Rat(1, 2)), R(10))))
        IN  [hour |-> (nowHour + i - 1) % 24,
             aqi |-> IF x < 0 THEN 0 ELSE x,
             status |-> getAQIStatus(latestAQI),
             confidence |-> Rat(6, 10),
             weatherFactors |-> [windEffect |-> Dbl(20, 0),
                                 humidityEffect |-> Dbl(20, 0),
                                 pressureEffect |-> Dbl(20, 0),
                                 temperatureEffect |-> Dbl(20, 0)],
             prediction |-> "stable"]]

generatorLocals == <<currentAQI, regionalData, primaryTrend, regionalTrend, index>>
bystanderVars == <<trendVars, weatherVars, classifyVars, storageVars, sensorVars>>

InitForecastHandler ==
    /\ pc = "request"
    /\ request \in ForecastRequests
    /\ received = <<request>>
    /\ upstream \in ForecastUpstreams
    /\ fetches = [role \in {"primary", "secondary", "weather"} |-> Unissued]
    /\ primaryAQIHistory = <<>> /\ secondaryAQIHistory = <<>> /\ response = <<>>
    /\ IdleStorage /\ IdleSensor
    /\ IdleForecast /\ IdleTrend /\ IdleWeather /\ IdleClassify

\* lines 243-245
ForecastBadRequest ==
    /\ pc = "request"
    /\ MissingCoordinates(request)
    /\ response' = Append(response,
                          ErrorResponse(400, "Latitude and longitude are required"))
    /\ pc' = "done"
    /\ UNCHANGED <<forecastVars, bystanderVars, request, received, upstream, fetches,
                   primaryAQIHistory, secondaryAQIHistory>>

\* lines 247-266: the three fetch calls are made while the argument of
\* Promise.all is evaluated
IssueFetches ==
    /\ pc = "request"
    /\ ~MissingCoordinates(request)
    /\ fetches' = [role \in DOMAIN fetches |->
                      [url |-> ForecastUrls(request)[role], state |-> "pending"]]
    /\ pc' = "awaitAll"
    /\ UNCHANGED <<forecastVars, bystanderVars, request, received, upstream,
                   primaryAQIHistory, secondaryAQIHistory, response>>

\* lines 350-353, entered from the await of line 262
CatchRejection ==
    /\ pc = "awaitAll"
    /\ AnyRejected(fetches)
    /\ response' = Append(response,
                          ErrorResponse(500, "Failed to generate predictive forecast"))
    /\ pc' = "done"
    /\ UNCHANGED <<forecastVars, bystanderVars, request, received, upstream, fetches,
                   primaryAQIHistory, secondaryAQIHistory>>

\* lines 350-353, entered from a throw of lines 268-296
CatchThrow ==
    /\ pc = "awaitAll"
    /\ AllFulfilled(fetches)
    /\ ForecastThrows(fetches, upstream)
    /\ response' = Append(response,
                          ErrorResponse(500, "Failed to generate predictive forecast"))
    /\ pc' = "done"
    /\ UNCHANGED <<forecastVars, bystanderVars, request, received, upstream, fetches,
                   primaryAQIHistory, secondaryAQIHistory>>

\* lines 268-321
ConvertResponses ==
    /\ pc = "awaitAll"
    /\ AllFulfilled(fetches)
    /\ ~ForecastThrows(fetches, upstream)
    /\ LET primaryFeeds == FeedsOrEmpty(upstream.primary)
           secondaryFeeds == IF fetches.secondary.state = "ok"
                             THEN FeedsOrEmpty(upstream.secondary) ELSE <<>>
           list == IF fetches.weather.state = "ok"
                   THEN Slice8(upstream.weather.list) ELSE <<>>
       IN  /\ primaryAQIHistory' =
                 [i \in 1..Len(primaryFeeds) |-> HistoryReading(primaryFeeds[i])]
           /\ secondaryAQIHistory' =
                 [i \in 1..Len(secondaryFeeds) |-> HistoryReading(secondaryFeeds[i])]
           /\ weatherForecast' = [i \in 1..Len(list) |-> WeatherPointOf(list[i])]
    /\ pc' = "generate"
    /\ UNCHANGED <<generatorLocals, forecast, bystanderVars, request, received, upstream,
                   fetches, response>>

\* lines 324-328
GenerateForecast ==
    /\ pc = "generate"
    /\ forecast' = generatePredictiveForecast(
                       AqiOf(primaryAQIHistory), weatherForecast,
                       IF Len(secondaryAQIHistory) > 0
                       THEN <<AqiOf(secondaryAQIHistory)>> ELSE <<>>)
    /\ pc' = "respond"
    /\ UNCHANGED <<generatorLocals, weatherForecast, bystanderVars, request,
                   handlerVars>>

\* lines 331-347
SendBasicForecast ==
    /\ pc = "respond"
    /\ Len(forecast) = 0
    /\ \E draws \in RandomDraws, nowHour \in NowHours :
          LET latestAQI == IF Len(primaryAQIHistory) = 0 THEN R(50)
                           ELSE OrElse(primaryAQIHistory[1].aqi, R(50))
          IN  response' = Append(response,
                                 OkResponse(basicForecast(latestAQI, draws, nowHour)))
    /\ pc' = "done"
    /\ UNCHANGED <<forecastVars, bystanderVars, request, received, upstream, fetches,
                   primaryAQIHistory, secondaryAQIHistory>>

\* line 349
SendForecast ==
    /\ pc = "respond"
    /\ Len(forecast) # 0
    /\ response' = Append(response, OkResponse(forecast))
    /\ pc' = "done"
    /\ UNCHANGED <<forecastVars, bystanderVars, request, received, upstream, fetches,
                   primaryAQIHistory, secondaryAQIHistory>>

NextForecastHandler ==
    \/ ForecastBadRequest
    \/ IssueFetches
    \/ FetchSettles
    \/ CatchRejection
    \/ CatchThrow
    \/ ConvertResponses
    \/ GenerateForecast
    \/ SendBasicForecast
    \/ SendForecast

SpecForecastHandler == InitForecastHandler /\ [][NextForecastHandler]_vars

---------------------------------------------------------------------------
(* SpecAirQuality: GET /api/air-quality (routes), the requests being       *)
(* served one after another on one store.  The body of the feed request    *)
(* carries the channel next to the feeds.                                  *)

MaxRequests == 2       \* SpecAirQuality: requests received

\* channel.latitude, channel.longitude, channel.elevation: texts
ChannelIpoh ==
    [latitude |-> R(46072110), longitude |-> R(1010909180), elevation |-> R(52)]
NoChannel ==
    [latitude |-> Undefined, longitude |-> Undefined, elevation |-> Undefined]

\* a feed of the raw pollutant channel
RawFeed ==
    [field1 |-> R(15), field2 |-> R(40), field3 |-> Rat(3, 10), field4 |-> EmptyText,
     field7 |-> R(9), field8 |-> JunkText]

AirQualityBodies ==
    {[shape |-> "malformed", feeds |-> <<>>, channel |-> NoChannel],
     [shape |-> "noFeeds", feeds |-> <<>>, channel |-> NoChannel],
     [shape |-> "feeds", feeds |-> <<>>, channel |-> ChannelIpoh],
     [shape |-> "feeds", feeds |-> <<FeedModerate>>, channel |-> ChannelIpoh],
     [shape |-> "feeds", feeds |-> <<FeedBeyond>>, channel |-> NoChannel],
     [shape |-> "feeds", feeds |-> <<FeedBlank>>, channel |-> NoChannel]}
RawBodies == {Malformed, WithFeeds(<<>>), WithFeeds(<<RawFeed>>)}
AirQualityUpstreams == [response : AirQualityBodies, rawResponse : RawBodies]

AirQualityRequests ==
    {[lat |-> Undefined, lon |-> R(1010909180), apiUrl |-> ""],
     [lat |-> R(46072110), lon |-> R(1010909180), apiUrl |-> ""],
     [lat |-> R(46072110), lon |-> R(1010909180), apiUrl |-> sensorLocations[2].apiUrl],
     [lat |-> JunkText, lon |-> R(1010909180), apiUrl |-> ""]}

\* what calculateDistance returns for the two sensors in the handler, which
\* calls it only for a request with coordinates and without apiUrl
HandlerDistances(req) ==
    IF FalsyText(req.lat) \/ FalsyText(req.lon) \/ req.apiUrl # "" THEN {<<>>}
    ELSE IF IsNumber(parseFloat(req.lat)) /\ IsNumber(parseFloat(req.lon))
    THEN {<<R(0), R(MaxDistance)>>, <<R(MaxDistance), R(1)>>}
    ELSE {<<NaN, NaN>>}

\* feed.fieldN ? parseFloat(feed.fieldN) : null
FieldOrNull(text) == IF FalsyText(text) THEN Null ELSE parseFloat(text)

\* x || null
OrElseNull(x) == IF FalsyNumber(x) THEN Null ELSE x

\* what makes the handler throw once both fetches are fulfilled: the status
\* of the feed answer, a body that is not JSON, data.feeds missing, no feed
AirQualityThrows(f, up) ==
    \/ f.response.state # "ok"
    \/ up.response.shape # "feeds"
    \/ f.rawResponse.state = "ok" /\ up.rawResponse.shape = "malformed"
    \/ Len(up.response.feeds) = 0

\* rawData && rawData.feeds && rawData.feeds.length > 0 ? rawData.feeds[0] : null
RawFeedOf(f, up) ==
    IF f.rawResponse.state = "ok" /\ Len(FeedsOrEmpty(up.rawResponse)) > 0
    THEN <<up.rawResponse.feeds[1]>> ELSE <<>>

RawOrAbsent(rawFeed, field) ==
    IF rawFeed = <<>> THEN Undefined ELSE FieldOrNull(rawFeed[1][field])

\* lines 168-216: the object the handler answers with (location is a text
\* made of elevation or of the coordinates, and is not modelled)
AirQualityReading(req, f, up) ==
    LET feed == up.response.feeds[1]
        channel == up.response.channel
        rawFeed == RawFeedOf(f, up)
        reading == FieldOrNull(feed.field6)
    IN  [aqi |-> reading,
         pm25 |-> FieldOrNull(feed.field5),
         pm10 |-> Null,
         no2 |-> FieldOrNull(feed.field4),
         o3 |-> FieldOrNull(feed.field1),
         so2 |-> FieldOrNull(feed.field3),
         co |-> FieldOrNull(feed.field2),
         rawNO2 |-> RawOrAbsent(rawFeed, "field1"),
         rawO3 |-> RawOrAbsent(rawFeed, "field2"),
         rawCO |-> RawOrAbsent(rawFeed, "field3"),
         rawSO2 |-> RawOrAbsent(rawFeed, "field4"),
         rawPM25 |-> RawOrAbsent(rawFeed, "field7"),
         rawPM10 |-> RawOrAbsent(rawFeed, "field8"),
         status |-> IF FalsyNumber(reading) THEN "No data" ELSE getAQIStatus(reading),
         latitude |-> OrElse(parseFloat(channel.latitude), parseFloat(req.lat)),
         longitude |-> OrElse(parseFloat(channel.longitude), parseFloat(req.lon)),
         elevation |-> OrElseNull(parseFloat(channel.elevation))]

\* lines 219-229: the argument of storage.createAirQualityData
InsertOf(data) ==
    [latitude |-> data.latitude, longitude |-> data.longitude, aqi |-> data.aqi,
     pm25 |-> data.pm25, pm10 |-> data.pm10, no2 |-> data.no2, o3 |-> data.o3,
     so2 |-> data.so2, co |-> data.co]

forecastLocals == <<primaryAQIHistory, secondaryAQIHistory>>
unservedVars == <<coreVars, nearestSensor, forecastLocals>>

InitAirQuality ==
    /\ pc = "request"
    /\ request \in AirQualityRequests
    /\ received = <<request>>
    /\ upstream \in AirQualityUpstreams
    /\ distances \in HandlerDistances(request)
    /\ fetches = [role \in {"response", "rawResponse"} |-> Unissued]
    /\ selectedSensor = <<>> /\ nearestSensor = ""
    /\ primaryAQIHistory = <<>> /\ secondaryAQIHistory = <<>> /\ response = <<>>
    /\ IdleStorage
    /\ IdleForecast /\ IdleTrend /\ IdleWeather /\ IdleClassify

\* lines 110-112
AirQualityBadRequest ==
    /\ pc = "request"
    /\ MissingCoordinates(request)
    /\ response' = Append(response,
                          ErrorResponse(400, "Latitude and longitude are required"))
    /\ pc' = "done"
    /\ UNCHANGED <<unservedVars, storageVars, request, received, upstream, fetches,
                   distances, selectedSensor>>

\* lines 114-152: the sensor is selected and its feed is fetched
FetchFeed ==
    /\ pc = "request"
    /\ ~MissingCoordinates(request)
    /\ LET sensor == SelectSensor(request.apiUrl, distances)
       IN  /\ selectedSensor' = <<sensor>>
           /\ fetches' = [fetches EXCEPT
                             !.response = [url |-> sensor.apiUrl, state |-> "pending"]]
    /\ pc' = "awaitResponse"
    /\ UNCHANGED <<unservedVars, storageVars, request, received, upstream, distances,
                   response>>

\* line 155, once the await of line 152 has resumed
FetchRaw ==
    /\ pc = "awaitResponse"
    /\ Fulfilled(fetches.response)
    /\ fetches' = [fetches EXCEPT
                      !.rawResponse = [url |-> selectedSensor[1].rawDataUrl,
                                       state |-> "pending"]]
    /\ pc' = "awaitRaw"
    /\ UNCHANGED <<unservedVars, storageVars, request, received, upstream, distances,
                   selectedSensor, response>>

\* lines 232-235, entered from the await of line 152 or of line 155
AirQualityCatchRejection ==
    /\ \/ pc = "awaitResponse" /\ fetches.response.state = "rejected"
       \/ pc = "awaitRaw" /\ fetches.rawResponse.state = "rejected"
    /\ response' = Append(response,
                          ErrorResponse(500, "Failed to fetch air quality data"))
    /\ pc' = "done"
    /\ UNCHANGED <<unservedVars, storageVars, request, received, upstream, fetches,
                   distances, selectedSensor>>

\* lines 232-235, entered from a throw of lines 157-174
AirQualityCatchThrow ==
    /\ pc = "awaitRaw"
    /\ Fulfilled(fetches.rawResponse)
    /\ AirQualityThrows(fetches, upstream)
    /\ response' = Append(response,
                          ErrorResponse(500, "Failed to fetch air quality data"))
    /\ pc' = "done"
    /\ UNCHANGED <<unservedVars, storageVars, request, received, upstream, fetches,
                   distances, selectedSensor>>

\* lines 157-229: the reading is made and stored
StoreReading ==
    /\ pc = "awaitRaw"
    /\ Fulfilled(fetches.rawResponse)
    /\ ~AirQualityThrows(fetches, upstream)
    /\ createAirQualityData(InsertOf(AirQualityReading(request, fetches, upstream)))
    /\ pc' = "send"
    /\ UNCHANGED <<unservedVars, request, received, upstream, fetches, distances,
                   selectedSensor, response>>

\* line 231, once the await of line 219 has resumed
SendReading ==
    /\ pc = "send"
    /\ response' = Append(response,
                          OkResponse(<<AirQualityReading(request, fetches, upstream)>>))
    /\ pc' = "done"
    /\ UNCHANGED <<unservedVars, storageVars, request, received, upstream, fetches,
                   distances, selectedSensor>>

\* line 106: the next request arrives
ReceiveAirQualityRequest ==
    /\ pc = "done"
    /\ Len(received) < MaxRequests
    /\ request' \in AirQualityRequests
    /\ received' = Append(received, request')
    /\ upstream' \in AirQualityUpstreams
    /\ distances' \in HandlerDistances(request')
    /\ fetches' = [role \in {"response", "rawResponse"} |-> Unissued]
    /\ selectedSensor' = <<>>
    /\ pc' = "request"
    /\ UNCHANGED <<unservedVars, storageVars, response>>

NextAirQuality ==
    \/ AirQualityBadRequest
    \/ FetchFeed
    \/ FetchSettles
    \/ FetchRaw
    \/ AirQualityCatchRejection
    \/ AirQualityCatchThrow
    \/ StoreReading
    \/ SendReading
    \/ ReceiveAirQualityRequest

SpecAirQuality == InitAirQuality /\ [][NextAirQuality]_vars

---------------------------------------------------------------------------
(* SpecStandalone: the three GET handlers of the standalone server         *)
(* (src/server/storage.ts) for one request.                                *)

\* sensorChannels[key].aqiUrl and .rawUrl
SensorUrls(key) ==
    IF key = "bandar_ipoh"
    THEN [aqiUrl |-> "https://api.thingspeak.com/channels/1656794/feeds.json?api_key=18T27314PL23U160&results=1",
          rawUrl |-> "https://api.thingspeak.com/channels/2765275/feeds.json?results=1"]
    ELSE [aqiUrl |-> "https://api.thingspeak.com/channels/1656796/feeds.json?api_key=0Q18INS0V5WK69JV&results=1",
          rawUrl |-> "https://api.thingspeak.com/channels/2765301/feeds.json?results=1"]

RECURSIVE ChannelOf(_, _)
ChannelOf(key, k) ==
    IF sensorChannels[k].key = key THEN sensorChannels[k] ELSE ChannelOf(key, k + 1)

StandaloneRequests ==
    {[lat |-> Undefined, lon |-> Undefined, apiUrl |-> ""],
     [lat |-> Undefined, lon |-> R(1011020870), apiUrl |-> ""],
     [lat |-> R(46396970), lon |-> R(1011020870), apiUrl |-> ""],
     [lat |-> JunkText, lon |-> EmptyText, apiUrl |-> ""]}

StandaloneUpstreams ==
    [aqiResponse : {Malformed, NoFeeds, WithFeeds(<<>>), WithFeeds(<<FeedModerate>>),
                    WithFeeds(<<FeedBeyond>>), WithFeeds(<<FeedBlank>>)},
     rawResponse : RawBodies]

\* parseFloat(req.query.lat) || 4.607211, parseFloat(req.query.lon) || 101.090918
DefaultedLat(req) == OrElse(parseFloat(req.lat), R(46072110))
DefaultedLon(req) == OrElse(parseFloat(req.lon), R(1010909180))

\* feed.field6 ? parseFloat(feed.field6) : fallback
FieldOr(text, fallback) == IF FalsyText(text) THEN fallback ELSE parseFloat(text)

\* rawFeed?.fieldN ? parseFloat(rawFeed.fieldN) : null
RawOrNull(rawFeed, field) ==
    IF rawFeed = <<>> THEN Null ELSE FieldOrNull(rawFeed[1][field])

\* what makes the air-quality handler throw once Promise.all has resumed it
StandaloneThrows(f, up) ==
    \/ f.aqiResponse.state # "ok"
    \/ up.aqiResponse.shape # "feeds"
    \/ f.rawResponse.state = "ok" /\ up.rawResponse.shape = "malformed"
    \/ Len(up.aqiResponse.feeds) = 0

\* lines 347-384: the object the air-quality handler answers with
StandaloneReading(key, f, up) ==
    LET feed == up.aqiResponse.feeds[1]
        rawFeed == RawFeedOf(f, up)
        reading == FieldOr(feed.field6, R(0))
        sensor == ChannelOf(key, 1)
    IN  [aqi |-> reading,
         pm25 |-> FieldOrNull(feed.field5),
         pm10 |-> Null,
         no2 |-> FieldOrNull(feed.field4),
         o3 |-> FieldOrNull(feed.field1),
         so2 |-> FieldOrNull(feed.field3),
         co |-> FieldOrNull(feed.field2),
         rawNO2 |-> RawOrNull(rawFeed, "field1"),
         rawO3 |-> RawOrNull(rawFeed, "field2"),
         rawCO |-> RawOrNull(rawFeed, "field3"),
         rawSO2 |-> RawOrNull(rawFeed, "field4"),
         rawPM25 |-> RawOrNull(rawFeed, "field7"),
         rawPM10 |-> RawOrNull(rawFeed, "field8"),
         status |-> getAQIStatus(reading),
         location |-> sensor.name,
         latitude |-> sensor.lat,
         longitude |-> sensor.lon]

\* lines 398-406: the fixed answer of the weather handler
StandaloneWeather ==
    [temperature |-> R(26), humidity |-> R(78), pressure |-> R(1010),
     windSpeed |-> Rat(5, 2), windDirection |-> R(180), uvIndex |-> Rat(26, 5),
     description |-> "Partly cloudy"]

\* Math.max(0, Math.min(500, x))
Clamp500(x) == IF RLt(x, R(0)) THEN R(0) ELSE IF RLt(R(500), x) THEN R(500) ELSE x

\* lines 425-439: the loop of the forecast handler
StandaloneForecast(currentAqi, currentHour) ==
    [k \in 1..8 |->
        LET i == k - 1
            variation == (i * 2) - 5
            forecastAqi == Clamp500(RAdd(currentAqi, R(variation)))
        IN  [hour |-> (currentHour + i) % 24,
             aqi |-> forecastAqi,
             status |-> getAQIStatus(forecastAqi)]]

standaloneFrame ==
    <<coreVars, storageVars, distances, selectedSensor, forecastLocals, request,
      received, upstream>>

InitStandalone ==
    /\ pc = "request"
    /\ request \in StandaloneRequests
    /\ received = <<request>>
    /\ upstream \in StandaloneUpstreams
    /\ fetches = [role \in {"aqiResponse", "rawResponse"} |-> Unissued]
    /\ distances = <<>> /\ selectedSensor = <<>> /\ nearestSensor = ""
    /\ primaryAQIHistory = <<>> /\ secondaryAQIHistory = <<>> /\ response = <<>>
    /\ IdleStorage
    /\ IdleForecast /\ IdleTrend /\ IdleWeather /\ IdleClassify

\* GET /api/air-quality, lines 330-340
StandaloneFetchBoth ==
    /\ pc = "request"
    /\ nearestSensor' = findNearestSensor(DefaultedLat(request), DefaultedLon(request))
    /\ fetches' = [aqiResponse |-> [url |-> SensorUrls(nearestSensor').aqiUrl,
                                    state |-> "pending"],
                   rawResponse |-> [url |-> SensorUrls(nearestSensor').rawUrl,
                                    state |-> "pending"]]
    /\ pc' = "awaitAll"
    /\ UNCHANGED <<standaloneFrame, response>>

\* lines 387-390, entered from the await of line 337
StandaloneCatchRejection ==
    /\ pc = "awaitAll"
    /\ AnyRejected(fetches)
    /\ response' = Append(response,
                          ErrorResponse(500, "Failed to fetch air quality data"))
    /\ pc' = "done"
    /\ UNCHANGED <<standaloneFrame, nearestSensor, fetches>>

\* lines 387-390, entered from a throw of lines 342-358
StandaloneCatchThrow ==
    /\ pc = "awaitAll"
    /\ AllFulfilled(fetches)
    /\ StandaloneThrows(fetches, upstream)
    /\ response' = Append(response,
                          ErrorResponse(500, "Failed to fetch air quality data"))
    /\ pc' = "done"
    /\ UNCHANGED <<standaloneFrame, nearestSensor, fetches>>

\* lines 342-386
StandaloneSendReading ==
    /\ pc = "awaitAll"
    /\ AllFulfilled(fetches)
    /\ ~StandaloneThrows(fetches, upstream)
    /\ response' = Append(response,
                          OkResponse(<<StandaloneReading(nearestSensor, fetches, upstream)>>))
    /\ pc' = "done"
    /\ UNCHANGED <<standaloneFrame, nearestSensor, fetches>>

\* GET /api/weather, lines 394-410: the query is not read
StandaloneSendWeather ==
    /\ pc = "request"
    /\ response' = Append(response, OkResponse(<<StandaloneWeather>>))
    /\ pc' = "done"
    /\ UNCHANGED <<standaloneFrame, nearestSensor, fetches>>

\* GET /api/air-quality/forecast, lines 415-422
StandaloneFetchAqi ==
    /\ pc = "request"
    /\ nearestSensor' = findNearestSensor(DefaultedLat(request), DefaultedLon(request))
    /\ fetches' = [fetches EXCEPT
                      !.aqiResponse = [url |-> SensorUrls(nearestSensor').aqiUrl,
                                       state |-> "pending"]]
    /\ pc' = "awaitAqi"
    /\ UNCHANGED <<standaloneFrame, response>>

\* lines 442-445: the fetch is rejected, the body is not JSON, or there is
\* no first feed (the status is not tested)
StandaloneForecastCatch ==
    /\ pc = "awaitAqi"
    /\ \/ fetches.aqiResponse.state = "rejected"
       \/ /\ Fulfilled(fetches.aqiResponse)
          /\ \/ upstream.aqiResponse.shape # "feeds"
             \/ Len(upstream.aqiResponse.feeds) = 0
    /\ response' = Append(response, ErrorResponse(500, "Failed to generate forecast"))
    /\ pc' = "done"
    /\ UNCHANGED <<standaloneFrame, nearestSensor, fetches>>

\* lines 423-441
StandaloneSendForecast ==
    /\ pc = "awaitAqi"
    /\ Fulfilled(fetches.aqiResponse)
    /\ upstream.aqiResponse.shape = "feeds"
    /\ Len(upstream.aqiResponse.feeds) > 0
    /\ \E currentHour \in NowHours :
          response' = Append(response,
                             OkResponse(StandaloneForecast(
                                 FieldOr(upstream.aqiResponse.feeds[1].field6, R(50)),
                                 currentHour)))
    /\ pc' = "done"
    /\ UNCHANGED <<standaloneFrame, nearestSensor, fetches>>

NextStandalone ==
    \/ StandaloneFetchBoth
    \/ FetchSettles
    \/ StandaloneCatchRejection
    \/ StandaloneCatchThrow
    \/ StandaloneSendReading
    \/ StandaloneSendWeather
    \/ StandaloneFetchAqi
    \/ StandaloneForecastCatch
    \/ StandaloneSendForecast

SpecStandalone == InitStandalone /\ [][NextStandalone]_vars

---------------------------------------------------------------------------
(* Claims about generatePredictiveForecast (Spec) *)

\* C1: whenever the primary history or the weather forecast is empty, the
\* generator returns the empty sequence without analysing anything (so it
\* cannot fail), whether or not a secondary history is supplied.
C1_EmptyInputEmptyForecast ==
    (Len(currentAQI) = 0 \/ Len(weatherForecast) = 0) =>
        /\ pc \in {"call", "done"}
        /\ forecast = <<>>
        /\ primaryTrend = <<>> /\ regionalTrend = <<>>

C1_Witness ==
    /\ pc = "done"
    /\ Len(currentAQI) = 0 /\ Len(weatherForecast) > 0
    /\ regionalData # <<>> /\ regionalData[1] # <<>>
    /\ forecast = <<>>

\* the status band of an integer AQI, by the breakpoint table of the design
C2_BandOf(v) ==
    CASE v <= 50 -> "Good"
      [] v >= 51 /\ v <= 100 -> "Moderate"
      [] v >= 101 /\ v <= 150 -> "Unhealthy for Sensitive Groups"
      [] v >= 151 /\ v <= 200 -> "Unhealthy"
      [] v >= 201 /\ v <= 300 -> "Very Unhealthy"
      [] v >= 301 -> "Hazardous"

\* C2: for non-empty inputs the generator emits exactly one point per weather
\* point, in order: point i carries the hour of weather point i and the status
\* band of its own predicted aqi.
C2_OnePointPerWeatherPoint ==
    /\ pc = "map" => Len(forecast) = index
    /\ (pc = "done" /\ Len(currentAQI) > 0 /\ Len(weatherForecast) > 0) =>
           Len(forecast) = Len(weatherForecast)
    /\ \A j \in 1..Len(forecast) :
           /\ forecast[j].hour = weatherForecast[j].hour
           /\ forecast[j].status = C2_BandOf(forecast[j].aqi)

C2_Witness ==
    /\ pc = "done"
    /\ Len(forecast) = 2
    /\ forecast[1].hour = 13 /\ forecast[2].hour = 23
    /\ forecast[1].status = "Moderate" /\ forecast[2].status = "Good"

\* what C3 says the step-j aqi is (j counted from 1, so the exponent is j)
C3_Base ==
    IF regionalData # <<>>
    THEN RAdd(RMul(Rat(7, 10), primaryTrend[1].averageAQI),
              RMul(Rat(3, 10), regionalTrend[1].averageAQI))
    ELSE primaryTrend[1].averageAQI
C3_TrendModifier ==
    CASE primaryTrend[1].trend = "improving" -> Rat(19, 20)
      [] primaryTrend[1].trend = "deteriorating" -> Rat(21, 20)
      [] primaryTrend[1].trend = "stable" -> R(1)
C3_Expected(j) ==
    MathRound(RMax(R(0), RMul(RMul(C3_Base, RPow(C3_TrendModifier, j)),
                              DblRat(totalMultiplier(weatherForecast[j])))))

\* C3: the aqi of step i is round(max(0, base * trendModifier^(i+1) *
\* totalMultiplier_i)), base being the primary averageAQI, blended 0.7/0.3 with
\* the secondary averageAQI when a secondary history is given; it is a
\* non-negative integer.  For the history 40,42,45,48,50,55 with one neutral
\* weather point and no secondary history the trend is deteriorating and the
\* step-0 aqi is round(mean * 1.05).
C3_PredictedAQIFormula ==
    /\ \A j \in 1..Len(forecast) :
           /\ forecast[j].aqi = C3_Expected(j)
           /\ forecast[j].aqi \in Nat
    /\ (primaryTrend # <<>> /\ Len(currentAQI) >= 2) =>
           primaryTrend[1].averageAQI =
               RDiv(RSum(SliceLast6(currentAQI)), R(Len(SliceLast6(currentAQI))))
    /\ (currentAQI = ScenarioHistory /\ regionalData = <<>> /\ Len(forecast) >= 1
           /\ weatherForecast[1] = NeutralWeather) =>
           /\ primaryTrend[1].trend = "deteriorating"
           /\ forecast[1].aqi = MathRound(RMul(RDiv(R(40 + 42 + 45 + 48 + 50 + 55), R(6)),
                                               Rat(105, 100)))

C3_Witness ==
    /\ pc = "done"
    /\ regionalData # <<>> /\ Len(regionalData[1]) = 2
    /\ primaryTrend # <<>> /\ primaryTrend[1].trend = "improving"
    /\ Len(forecast) = 2
    /\ forecast[1].aqi > forecast[2].aqi /\ forecast[2].aqi > 0

\* C9: every emitted point has 0.3 <= confidence <= 0.95.
C9_ConfidenceInRange ==
    \A j \in 1..Len(forecast) :
        /\ RLe(Rat(3, 10), forecast[j].confidence)
        /\ RLe(forecast[j].confidence, Rat(95, 100))

\* a point whose unclamped confidence is below 0.3
C9_Witness ==
    /\ pc = "done"
    /\ \E j \in 1..Len(forecast) :
           /\ ~RawConfidenceGe(primaryTrend[1].volatility, j - 1, Rat(3, 10))
           /\ forecast[j].confidence = Rat(3, 10)

\* C10: within one forecast confidence is non-increasing in the step index,
\* and once it is 0.3 it is 0.3 at every later step.
C10_ConfidenceNonIncreasing ==
    \A i \in 1..Len(forecast) : \A j \in 1..Len(forecast) :
        i < j =>
            /\ RLe(forecast[j].confidence, forecast[i].confidence)
            /\ forecast[i].confidence = Rat(3, 10) => forecast[j].confidence = Rat(3, 10)

C10_Witness ==
    /\ pc = "done"
    /\ Len(forecast) = 2
    /\ RLt(forecast[2].confidence, forecast[1].confidence)
    /\ RLt(Rat(3, 10), forecast[2].confidence)

---------------------------------------------------------------------------
(* Claims about getAQIStatus (SpecClassify) *)

\* C4: v <= 50 (negative v included) is Good, 50 < v <= 100 Moderate,
\* 100 < v <= 150 Unhealthy for Sensitive Groups, 150 < v <= 200 Unhealthy,
\* 200 < v <= 300 Very Unhealthy, v > 300 Hazardous.
C4_InclusiveUpperBounds ==
    pc = "done" =>
        /\ (aqi.n <= 50 * aqi.d) => status = "Good"
        /\ (50 * aqi.d < aqi.n /\ aqi.n <= 100 * aqi.d) => status = "Moderate"
        /\ (100 * aqi.d < aqi.n /\ aqi.n <= 150 * aqi.d) =>
               status = "Unhealthy for Sensitive Groups"
        /\ (150 * aqi.d < aqi.n /\ aqi.n <= 200 * aqi.d) => status = "Unhealthy"
        /\ (200 * aqi.d < aqi.n /\ aqi.n <= 300 * aqi.d) => status = "Very Unhealthy"
        /\ (300 * aqi.d < aqi.n) => status = "Hazardous"

C4_Witness == pc = "done" /\ aqi = R(300) /\ status = "Very Unhealthy"

---------------------------------------------------------------------------
(* Claims about calculateWeatherImpact (SpecWeather) *)

C5_AllNeutral(w) ==
    /\ 5 <= w.windSpeed /\ w.windSpeed <= 15
    /\ 40 <= w.humidity /\ w.humidity <= 70
    /\ 1013 <= w.pressure /\ w.pressure <= 1023
    /\ 15 <= w.temperature /\ w.temperature <= 25

\* C5 as stated: totalMultiplier = 1.0 exactly when every factor is in its
\* neutral range.
C5_OneIffAllNeutral ==
    pc = "done" => (DblIsOne(weatherImpact[1].totalMultiplier) <=> C5_AllNeutral(weather))

\* C5 as amended: totalMultiplier = 1.0 whenever every factor is in its
\* neutral range, and otherwise only for the two mixes whose double sum is
\* exactly 4: 1.3 + 0.9 + 0.9 + 0.9 (wind < 5, humidity < 40, pressure > 1023,
\* temperature < 15) and 1.0 + 1.2 + 0.9 + 0.9 (wind in [5,15], humidity > 70,
\* pressure > 1023, temperature < 15).
C5_OneIffNeutralOrCancelling ==
    pc = "done" =>
        (DblIsOne(weatherImpact[1].totalMultiplier) <=>
            \/ C5_AllNeutral(weather)
            \/ /\ weather.windSpeed < 5 /\ weather.humidity < 40
               /\ weather.pressure > 1023 /\ weather.temperature < 15
            \/ /\ 5 <= weather.windSpeed /\ weather.windSpeed <= 15
               /\ weather.humidity > 70
               /\ weather.pressure > 1023 /\ weather.temperature < 15)

C5_Witness ==
    /\ pc = "done"
    /\ ~C5_AllNeutral(weather)
    /\ weather.windSpeed < 5
    /\ DblIsOne(weatherImpact[1].totalMultiplier)

\* C6: each effect is the table value of its factor's band (the thresholds
\* themselves are in the 1.0 band) and totalMultiplier is the mean of the four.
C6_EffectsAndMean ==
    pc = "done" =>
        LET r == weatherImpact[1]
        IN  /\ r.windEffect = (IF weather.windSpeed < 5 THEN Dbl(26, 16)
                                ELSE IF weather.windSpeed > 15 THEN Dbl(14, -16)
                                ELSE Dbl(20, 0))
            /\ r.humidityEffect = (IF weather.humidity < 40 THEN Dbl(18, 8)
                                    ELSE IF weather.humidity > 70 THEN Dbl(24, -16)
                                    ELSE Dbl(20, 0))
            /\ r.pressureEffect = (IF weather.pressure < 1013 THEN Dbl(24, -16)
                                    ELSE IF weather.pressure > 1023 THEN Dbl(18, 8)
                                    ELSE Dbl(20, 0))
            /\ r.temperatureEffect = (IF weather.temperature < 15 THEN Dbl(18, 8)
                                       ELSE IF weather.temperature > 25 THEN Dbl(23, -32)
                                       ELSE Dbl(20, 0))
            /\ DblRat(r.totalMultiplier) =
                   RDiv(RSum(<<DblRat(r.windEffect), DblRat(r.humidityEffect),
                               DblRat(r.pressureEffect), DblRat(r.temperatureEffect)>>),
                        R(4))

C6_Witness ==
    /\ pc = "done"
    /\ weather.windSpeed = 5 /\ weather.humidity = 71
    /\ weather.pressure = 1012 /\ weather.temperature = 25
    /\ weatherImpact[1].windEffect = Dbl(20, 0)
    /\ DblRat(weatherImpact[1].totalMultiplier) = Rat(11, 10)

---------------------------------------------------------------------------
(* Claims about analyzeAQITrend (SpecTrend) *)

\* C7: with fewer than 2 readings the summary is stable with volatility 0;
\* averageAQI is the single reading's aqi (0 included), and 50 only for an
\* empty history.
C7_ShortHistorySummary ==
    (pc = "done" /\ Len(historical) < 2) =>
        /\ trendSummary[1].trend = "stable"
        /\ trendSummary[1].volatility.sqrtOf = R(0)
        /\ trendSummary[1].averageAQI =
               (IF Len(historical) = 1 THEN historical[1] ELSE R(50))

\* the least-squares slope in its centred form:
\* sum (i - xbar)(y_i - ybar) / sum (i - xbar)^2, i = 0..n-1
RECURSIVE C8_Cov(_, _, _, _)
C8_Cov(s, k, xbar, ybar) ==
    IF k > Len(s) THEN R(0)
    ELSE RAdd(RMul(RSub(R(k - 1), xbar), RSub(s[k], ybar)), C8_Cov(s, k + 1, xbar, ybar))
RECURSIVE C8_VarX(_, _)
C8_VarX(k, xbar) ==
    IF k = 0 THEN R(0)
    ELSE RAdd(RMul(RSub(R(k - 1), xbar), RSub(R(k - 1), xbar)), C8_VarX(k - 1, xbar))
C8_Slope(h) ==
    LET s == IF Len(h) <= 6 THEN h ELSE [k \in 1..6 |-> h[Len(h) - 6 + k]]
        n == Len(s)
        xbar == Rat(n - 1, 2)
        ybar == RDiv(RSum(s), R(n))
    IN  RDiv(C8_Cov(s, 1, xbar, ybar), C8_VarX(n, xbar))
C8_Increasing(h) == \A k \in 1..(Len(h) - 1) : RLt(h[k], h[k + 1])
C8_Decreasing(h) == \A k \in 1..(Len(h) - 1) : RLt(h[k + 1], h[k])
C8_Constant(h) == \A k \in 1..Len(h) : h[k] = h[1]
C8_BySlope ==
    trendSummary[1].trend =
        (IF RLt(C8_Slope(historical), Rat(-1, 2)) THEN "improving"
         ELSE IF RLt(Rat(1, 2), C8_Slope(historical)) THEN "deteriorating"
         ELSE "stable")

\* C8 as stated: for a history of length >= 2 the trend is the class of the
\* least-squares slope of the last (at most 6) values; a strictly increasing
\* history with slope > 0.5 is deteriorating, a strictly decreasing history
\* is improving, a constant history is stable with volatility 0.
C8_TrendOfMonotoneHistory ==
    (pc = "done" /\ Len(historical) >= 2) =>
        /\ C8_BySlope
        /\ (C8_Increasing(historical) /\ RLt(Rat(1, 2), C8_Slope(historical))) =>
               trendSummary[1].trend = "deteriorating"
        /\ C8_Decreasing(historical) => trendSummary[1].trend = "improving"
        /\ C8_Constant(historical) =>
               /\ trendSummary[1].trend = "stable"
               /\ trendSummary[1].volatility.sqrtOf = R(0)

\* C8 as amended: ... a strictly decreasing history with slope < -0.5 is
\* improving (a strictly decreasing history with slope in [-0.5, 0) is stable).
C8_TrendOfSteepHistory ==
    (pc = "done" /\ Len(historical) >= 2) =>
        /\ C8_BySlope
        /\ (C8_Increasing(historical) /\ RLt(Rat(1, 2), C8_Slope(historical))) =>
               trendSummary[1].trend = "deteriorating"
        /\ (C8_Decreasing(historical) /\ RLt(C8_Slope(historical), Rat(-1, 2))) =>
               trendSummary[1].trend = "improving"
        /\ (C8_Decreasing(historical) /\ ~RLt(C8_Slope(historical), Rat(-1, 2))) =>
               trendSummary[1].trend = "stable"
        /\ C8_Constant(historical) =>
               /\ trendSummary[1].trend = "stable"
               /\ trendSummary[1].volatility.sqrtOf = R(0)

C8_Witness ==
    /\ pc = "done"
    /\ Len(historical) = 3
    /\ C8_Decreasing(historical)
    /\ RLt(C8_Slope(historical), Rat(-1, 2))
    /\ trendSummary[1].trend = "improving"

---------------------------------------------------------------------------
(* Claims about MemStorage (SpecStorage) *)

C17_Kinds == {"user", "airQualityData", "newsArticle", "airQualityStation"}
C17_MapOf(kind) ==
    CASE kind = "user" -> users
      [] kind = "airQualityData" -> airQualityData
      [] kind = "newsArticle" -> newsArticles
      [] kind = "airQualityStation" -> airQualityStations
C17_CounterOf(kind) ==
    CASE kind = "user" -> currentUserId
      [] kind = "airQualityData" -> currentAirQualityId
      [] kind = "newsArticle" -> currentNewsId
      [] kind = "airQualityStation" -> currentStationId
\* the records the constructor seeds, with the ids 1, 2, ... in sample order
C17_SeedsOf(kind) ==
    CASE kind = "newsArticle" ->
             [k \in 1..Len(sampleNews) |->
                 [f \in {"title", "category", "publishedHoursAgo", "id"} |->
                     IF f = "id" THEN k ELSE sampleNews[k][f]]]
      [] kind = "airQualityStation" ->
             [k \in 1..Len(sampleStations) |->
                 [f \in {"name", "latitude", "longitude", "aqi", "status", "id"} |->
                     IF f = "id" THEN k ELSE sampleStations[k][f]]]
      [] OTHER -> <<>>
\* the records the create calls of one kind returned, in call order
RECURSIVE C17_ReturnedOf(_, _)
C17_ReturnedOf(kind, log) ==
    IF log = <<>> THEN <<>>
    ELSE (IF log[1].kind = kind THEN <<log[1].record>> ELSE <<>>)
             \o C17_ReturnedOf(kind, Tail(log))

\* C17: after any sequence of create calls on the seeded store, the ids of
\* each entity kind are pairwise distinct and strictly increasing in creation
\* order, every record ever stored is still stored unchanged (no create
\* overwrites), and the map and counter of a kind are determined by the
\* creates of that kind alone (a create leaves the other kinds untouched).
C17_IdsDistinctAndIncreasing ==
    \A kind \in C17_Kinds :
        LET m == C17_MapOf(kind)
        IN  /\ m = C17_SeedsOf(kind) \o C17_ReturnedOf(kind, creations)
            /\ \A i \in 1..Len(m) : \A j \in 1..Len(m) : i < j => m[i].id < m[j].id
            /\ \A i \in 1..Len(m) : m[i].id < C17_CounterOf(kind)
            /\ C17_CounterOf(kind) = Len(m) + 1

C17_Witness ==
    /\ Len(users) = 2 /\ users[1].id = 1 /\ users[2].id = 2
    /\ Len(airQualityStations) = 4 /\ airQualityStations[4].id = 4
    /\ Len(newsArticles) = 4 /\ airQualityData = <<>>

C20_DegreesSquared(st, call) ==
    (st.latitude - call.latitude) * (st.latitude - call.latitude)
        + (st.longitude - call.longitude) * (st.longitude - call.longitude)
\* sqrt(degreesSquared) * 111 <= radius, the radius defaulting to 50
C20_Within(st, call) ==
    LET r == IF call.radius = <<>> THEN R(50) ELSE call.radius[1]
    IN  /\ r.n >= 0
        /\ FracLe(C20_DegreesSquared(st, call), CoordScale * CoordScale,
                  r.n * r.n, 12321 * r.d * r.d)
C20_Result ==
    nearbyStations # <<>> =>
        LET call == nearbyStations[1]
            stored == {call.values[k] : k \in 1..Len(call.values)}
            res == call.result
        IN  /\ \A i \in 1..Len(res) : res[i] \in stored
            /\ \A i \in 1..Len(res) : \A j \in 1..Len(res) : i < j =>
                   /\ res[i].id # res[j].id
                   /\ C20_DegreesSquared(res[i], call) <= C20_DegreesSquared(res[j], call)
            /\ \A st \in stored :
                   (\E i \in 1..Len(res) : res[i] = st) <=> C20_Within(st, call)
C20_StoreUntouched ==
    nearbyStations' # nearbyStations =>
        /\ nearbyStations'[1].values = airQualityStations
        /\ UNCHANGED <<userVars, dataVars, newsVars, stationVars>>

\* C20: getNearbyStations(lat, lon, radius) returns exactly the stored
\* stations whose approximate distance (degree distance times 111) is at most
\* the radius (50 when none is given), each once, in order of non-decreasing
\* distance, and the call leaves the store as it was.
C20_NearbyExactlyWithinRadius == []C20_Result /\ [][C20_StoreUntouched]_vars

\* a call with a station exactly at the radius and two stations at one distance
C20_Witness ==
    /\ nearbyStations # <<>>
    /\ nearbyStations[1].radius = <<Rat(555, 8)>>
    /\ nearbyStations[1].latitude = 381250
    /\ Len(nearbyStations[1].result) = 5
    /\ nearbyStations[1].result[5].name = "Ocean Beach"
    /\ nearbyStations[1].result[1].name = "Downtown SF"
    /\ nearbyStations[1].result[2].name = "Downtown Annex"

---------------------------------------------------------------------------
(* Claims about sensor selection (SpecNearest) *)

\* k is the first position of a minimal distance: nothing is closer, and
\* everything before k is farther (or, with NaN distances, k is 1)
C15_FirstMinimal(dist, k) ==
    /\ \A j \in 1..Len(dist) : ~NumLt(dist[j], dist[k])
    /\ \A j \in 1..(k - 1) : NumLt(dist[k], dist[j])
\* the coordinates the standalone handler works with, in 1/SensorScale degree
C15_EffectiveLat ==
    IF request.lat \in {R(0), JunkText} THEN R(46072110) ELSE request.lat
C15_EffectiveLon == request.lon
C15_Manhattan ==
    [k \in 1..Len(sensorChannels) |->
        IF C15_EffectiveLat = Infinity THEN Infinity
        ELSE R(Abs(C15_EffectiveLat.n - sensorChannels[k].lat.n)
               + Abs(C15_EffectiveLon.n - sensorChannels[k].lon.n))]

---------------------------------------------------------------------------
(* Claims about GET /api/air-quality/forecast (SpecForecastHandler) *)

\* the primary and the weather fetch were answered 2xx with bodies the
\* handler can read
C11_RequiredSucceed ==
    /\ fetches.primary.state = "ok" /\ upstream.primary.shape # "malformed"
    /\ fetches.weather.state = "ok" /\ upstream.weather.shape # "malformed"
    /\ \A i \in 1..Len(upstream.weather.list) : upstream.weather.list[i].main

\* C11: a failure of the secondary sensor fetch, by a non-2xx status or by a
\* network error, never aborts the request: when the required fetches
\* succeed, the finished request has answered 200.
C11_OptionalFailureNeverAborts ==
    (/\ pc = "done"
     /\ fetches.secondary.state \in {"notOk", "rejected"}
     /\ C11_RequiredSucceed)
    => (Len(response) = 1 /\ response[1].status = 200)

\* C12: a failure of the primary fetch or of the weather forecast fetch, by a
\* non-2xx status or by a network error, ends the request with HTTP 500 and
\* the fixed error message, never with a 200 forecast.
C12_RequiredFailureIs500 ==
    (/\ pc = "done"
     /\ \/ fetches.primary.state \in {"notOk", "rejected"}
        \/ fetches.weather.state \in {"notOk", "rejected"})
    => (/\ Len(response) = 1
        /\ response[1].status = 500
        /\ response[1].error = "Failed to generate predictive forecast"
        /\ response[1].body = <<>>)

C14_Roles == {"primary", "secondary", "weather"}

\* the three fetches are issued together, and while the handler converts,
\* generates or answers with a forecast, none of them is unissued or pending
C14_Settled ==
    /\ \A r1 \in C14_Roles, r2 \in C14_Roles :
          (fetches[r1].state = "unissued") <=> (fetches[r2].state = "unissued")
    /\ pc = "awaitAll" => \A role \in C14_Roles : fetches[role].state # "unissued"
    /\ (\/ pc \in {"generate", "respond"}
        \/ forecast # <<>> \/ weatherForecast # <<>>
        \/ primaryAQIHistory # <<>> \/ secondaryAQIHistory # <<>>
        \/ \E k \in 1..Len(response) : response[k].status = 200)
       => \A role \in C14_Roles : fetches[role].state \in {"ok", "notOk", "rejected"}

\* a response sent while a fetch is pending is the 500 that ends the request
C14_ResponseWhilePending ==
    (/\ response' # response
     /\ \E role \in C14_Roles : fetches[role].state = "pending")
    => (pc' = "done" /\ response'[Len(response')].status = 500)

\* a finished request reads nothing more: what it made stays as it is
C14_DoneIsFinal ==
    pc = "done" =>
        /\ pc' = "done"
        /\ UNCHANGED <<response, forecast, weatherForecast, primaryAQIHistory,
                       secondaryAQIHistory>>

\* C14: the three fetches are issued before any is awaited, the forecast is
\* computed only when each of them has completed or failed, and no response
\* is sent while a fetch that is used later is outstanding.
C14_FetchesSettleBeforeForecast ==
    []C14_Settled /\ [][C14_ResponseWhilePending /\ C14_DoneIsFinal]_vars

C14_Witness ==
    /\ pc = "respond"
    /\ forecast # <<>>
    /\ fetches.primary.state = "ok"
    /\ fetches.secondary.state = "notOk"
    /\ fetches.weather.state = "ok"

\* C19: every 200 response is a non-empty sequence of at most 8 points, and
\* each point's status is getAQIStatus of that point's aqi.
C19_OkForecastClassified ==
    \A k \in 1..Len(response) :
        response[k].status = 200 =>
            /\ Len(response[k].body) \in 1..8
            /\ \A i \in 1..Len(response[k].body) :
                  response[k].body[i].status = getAQIStatus(R(response[k].body[i].aqi))

---------------------------------------------------------------------------
(* Claims about GET /api/air-quality (SpecAirQuality) *)

C18_Count200 == Cardinality({k \in 1..Len(response) : response[k].status = 200})

\* every finished request has one response and the request being served has
\* none yet; the store holds one record per 200 response, and one more while
\* the answer of a stored reading is still to be sent
C18_OneRecordPer200 ==
    /\ Len(response) = Len(received) - (IF pc = "done" THEN 0 ELSE 1)
    /\ \A k \in 1..Len(response) : response[k].status \in {200, 400, 500}
    /\ Len(airQualityData) = C18_Count200 + (IF pc = "send" THEN 1 ELSE 0)

\* records are only ever added to the store, one at a time, and a step that
\* sends a response writes nothing
C18_AppendOnly ==
    /\ Len(airQualityData') \in {Len(airQualityData), Len(airQualityData) + 1}
    /\ \A k \in 1..Len(airQualityData) : airQualityData'[k] = airQualityData[k]
    /\ response' # response =>
          /\ airQualityData' = airQualityData
          /\ Len(response') = Len(response) + 1
          /\ \A k \in 1..Len(response) : response'[k] = response[k]

\* C18: a request that ends with 400 or 500 leaves the stored records as they
\* were, a request that ends with 200 has added exactly one record, and every
\* request gets exactly one response.
C18_WritesExactlyOnSuccess == []C18_OneRecordPer200 /\ [][C18_AppendOnly]_vars

C18_Witness ==
    /\ pc = "done"
    /\ Len(received) = 2 /\ Len(response) = 2
    /\ response[1].status = 500 /\ response[2].status = 200
    /\ Len(airQualityData) = 1
    /\ airQualityData[1].aqi = response[2].body[1].aqi

C16_AqiInRange(v) == IsNumber(v) /\ RLe(R(0), v) /\ RLe(v, R(500))
C16_AbsentOrNonNegative(v) == v \in {Null, Undefined} \/ (IsNumber(v) /\ RLe(R(0), v))
C16_Clamped(reading) ==
    /\ C16_AqiInRange(reading.aqi)
    /\ \A f \in {"pm25", "no2", "o3", "so2", "co"} : C16_AbsentOrNonNegative(reading[f])

\* C16: every history reading handed to the forecast generator and every
\* record GET /api/air-quality writes to the store has aqi within [0, 500]
\* and no negative pollutant field.
C16_ReadingsClamped ==
    /\ \A i \in 1..Len(primaryAQIHistory) : C16_Clamped(primaryAQIHistory[i])
    /\ \A i \in 1..Len(secondaryAQIHistory) : C16_Clamped(secondaryAQIHistory[i])
    /\ \A k \in 1..Len(airQualityData) :
          C16_Clamped(airQualityData[k]) /\ C16_AbsentOrNonNegative(airQualityData[k].pm10)

---------------------------------------------------------------------------
(* Claims about the coordinate check (SpecStandalone) *)

\* C13: a request in which lat or lon is missing is answered with HTTP 400,
\* never with a 200 result computed from default coordinates.
C13_MissingCoordinatesIs400 ==
    (pc = "done" /\ MissingCoordinates(request))
    => (Len(response) = Len(received) /\ response[Len(response)].status = 400)

===========================================================================
